---- MODULE Spec2Model ----
(***************************************************************************)
(* Content Access & Authorization Gateway of blog.xaostech.io.             *)
(*                                                                         *)
(* The repository holds three revisions of the Hono worker                 *)
(*   "kv_sync"  src/unnamed/part_002        (session KV + users mirror)    *)
(*   "kv"       src/src/index.ts:1-879      (session KV, no mirror)        *)
(*   "header"   src/src/index.ts:881-1572   (principal from headers)       *)
(* and the Astro revision (middleware + /api/posts endpoints on D1).       *)
(* A request is one atomic action: middleware, then the route handler.     *)
(***************************************************************************)
EXTENDS Integers, Sequences, FiniteSets, TLC

VARIABLES
    now,          \* wall clock, in seconds (Date.now() = now * 1000)
    ADMIN_ROLE,   \* env.ADMIN_ROLE, fixed at deployment
    users,        \* D1 table users (the mirror): id -> row
    posts,        \* D1 table posts: id -> row
    nextPostId,   \* ids handed out so far (randomUUID is always fresh)
    comments,     \* D1 table comments: id -> row
    nextCommentId,
    media,        \* D1 table media: set of rows
    usage_quota,  \* D1 table usage_quota: user_id -> row
    cache,        \* KV namespace CACHE: set of keys present
    outbound,     \* calls made to the storage service so far
    last,         \* the request handled last, with its principal and response
    prev,         \* the request handled before it
    inflight      \* uploads between two awaits: process -> request and position

vars == <<now, ADMIN_ROLE, users, posts, nextPostId, comments, nextCommentId,
          media, usage_quota, cache, outbound, last, prev, inflight>>

stores == <<posts, nextPostId, comments, nextCommentId, media, usage_quota,
            cache, outbound>>

----------------------------------------------------------------------------
(* Bounds of the model *)

MaxTime == 2
MaxPosts == 2
MaxComments == 2
MaxOutbound == 2
MaxInflight == 2

----------------------------------------------------------------------------
(* Values *)

NULL == "<null>"          \* JS null / undefined / SQL NULL
ABSENT == "<absent>"      \* a key that the JSON body does not carry

UserIds == {"u1", "u2", "u3"}
Roles == {"admin", "owner", "user"}

NoUser == [id |-> NULL, role |-> NULL, username |-> NULL]

\* An optional integer (a nullable INTEGER column, an optional JSON number).
None == <<>>
Some(n) == <<n>>

Digits == "0123456789"

DateNow == now * 1000
NowSec == DateNow \div 1000

----------------------------------------------------------------------------
(* The external session store SESSIONS_KV: session id -> stored text.      *)
(* ok = FALSE is a value JSON.parse throws on. expires is in milliseconds; *)
(* NULL / None stand for a record without the key.                         *)

SESSIONS_KV ==
    [sid \in {"sA", "sO", "sU", "sE", "sZ", "sBad"} |->
       CASE sid = "sA" -> [ok |-> TRUE, userId |-> "u1", role |-> "admin",
                           username |-> "alice", expires |-> None]
         [] sid = "sO" -> [ok |-> TRUE, userId |-> "u2", role |-> "owner",
                           username |-> "olga", expires |-> Some(9000)]
         [] sid = "sU" -> [ok |-> TRUE, userId |-> "u3", role |-> NULL,
                           username |-> "uma", expires |-> None]
         [] sid = "sE" -> [ok |-> TRUE, userId |-> "u1", role |-> "admin",
                           username |-> "alice", expires |-> Some(2000)]
         [] sid = "sZ" -> [ok |-> TRUE, userId |-> "u2", role |-> "owner",
                           username |-> "olga", expires |-> Some(0)]
         [] OTHER      -> [ok |-> FALSE, userId |-> NULL, role |-> NULL,
                           username |-> NULL, expires |-> None]]

SessionIds == DOMAIN SESSIONS_KV \cup {"sMiss"}

\* The Cookie header: NoCookie, or one cookie name=value.
NoCookie == [name |-> NULL, value |-> NULL]
Cookies == {NoCookie} \cup [name : {"session_id", "session"}, value : SessionIds]

\* Client-supplied identity headers X-User-ID / X-User-Role.
NoHeaders == [id |-> NULL, role |-> NULL]
Headers == [id : UserIds \cup {NULL}, role : Roles \cup {NULL}]

\* cookie.match(/session_id=([^;]+)/)
sessionMatch(cookie) ==
    IF cookie.name = "session_id" THEN cookie.value ELSE NULL

\* c.req.header('Cookie')?.split('session=')[1]?.split(';')[0]
sessionSplit(cookie) ==
    IF cookie.name = "session" THEN cookie.value ELSE NULL

\* !session.expires || session.expires > Date.now()
NotExpired(session) ==
    \/ session.expires = None
    \/ session.expires[1] = 0
    \/ session.expires[1] > DateNow

\* The principal built from a parsed session record.
SessionUser(session) ==
    [id |-> session.userId,
     role |-> IF session.role = NULL THEN "user" ELSE session.role,
     username |-> session.username]

\* try { SESSIONS_KV.get; JSON.parse; expiry check } catch { log }
KvUser(sessionId, kvFails) ==
    IF sessionId = NULL THEN NoUser
    ELSE IF kvFails THEN NoUser
    ELSE IF sessionId \notin DOMAIN SESSIONS_KV THEN NoUser
    ELSE IF ~SESSIONS_KV[sessionId].ok THEN NoUser
    ELSE IF NotExpired(SESSIONS_KV[sessionId])
         THEN SessionUser(SESSIONS_KV[sessionId])
         ELSE NoUser

\* Header revision: the principal is read from X-User-ID / X-User-Role.
HeaderUser(sessionId, hdr) ==
    IF sessionId = NULL THEN NoUser
    ELSE IF hdr.id = NULL THEN NoUser
    ELSE [id |-> hdr.id,
          role |-> IF hdr.role = NULL THEN "user" ELSE hdr.role,
          username |-> NULL]

HonoVersions == {"kv_sync", "kv", "header"}

\* The Hono session middleware: c.get('user') as the handler sees it.
HonoUser(ver, path, cookie, hdr, kvFails) ==
    IF path = "/health" THEN NoUser
    ELSE IF ver = "header" THEN HeaderUser(sessionSplit(cookie), hdr)
    ELSE KvUser(sessionMatch(cookie), kvFails)


\* Astro middleware: paths under /api/ and paths with a dot skip resolution
\* and leave locals.user as it was handed in; without the SESSIONS_KV binding
\* locals.user is null.
\* path.startsWith('/api/') || path.includes('.')
AstroBypass(path) ==
    \/ Len(path) >= 5 /\ SubSeq(path, 1, 5) = "/api/"
    \/ \E i \in 1..Len(path) : SubSeq(path, i, i) = "."

AstroUser(path, cookie, kvFails, localsUser) ==
    IF AstroBypass(path) THEN localsUser
    ELSE KvUser(IF cookie.name = "session_id" THEN cookie.value ELSE NULL, kvFails)

----------------------------------------------------------------------------
(* Identity synchronizer: INSERT INTO users ... ON CONFLICT(id) DO UPDATE  *)

UpsertUser(tbl, user) ==
    [id \in DOMAIN tbl \cup {user.id} |->
        IF id = user.id THEN [username |-> user.username, role |-> user.role]
        ELSE tbl[id]]

\* The mirror after the middleware ran: only the syncing revisions write it,
\* only for a resolved principal, and a failing upsert is swallowed.
SyncUser(tbl, syncs, user, syncFails) ==
    IF syncs /\ user # NoUser /\ ~syncFails THEN UpsertUser(tbl, user) ELSE tbl

\* Faulty variant: a failed upsert aborts the resolution.
UserLostOnSyncFailure(user, syncFails) == IF syncFails THEN NoUser ELSE user

\* The principal the handler sees after the identity sync was attempted.
UserAfterSync(user, syncFails) == user

Syncs(ver) == ver \in {"kv_sync", "astro_sync"}

----------------------------------------------------------------------------
(* Requests and the log of the last response *)

NoBody == [title |-> ABSENT, slug |-> ABSENT, content |-> ABSENT,
           excerpt |-> ABSENT, featured_image_url |-> ABSENT, status |-> ABSENT]

NoComment == [content |-> ABSENT, author_name |-> ABSENT, parent_comment_id |-> ABSENT]
NoFile == [present |-> FALSE, size |-> 0, type |-> "image/png"]
NoUpstream == [throws |-> FALSE, status |-> 200]

BaseReq ==
    [route |-> "none", ver |-> "kv_sync", cookie |-> NoCookie, hdr |-> NoHeaders,
     kvFails |-> FALSE, syncFails |-> FALSE, dbFails |-> FALSE,
     localsUser |-> NoUser, id |-> 0, slug |-> NULL, key |-> NULL, body |-> NoBody,
     page |-> ABSENT, limit |-> ABSENT, comment |-> NoComment, wall |-> NULL,
     file |-> NoFile, target |-> [type |-> NULL, id |-> 0], upstream |-> NoUpstream,
     failAt |-> "none", format |-> "html"]

NoOut == <<>>
NoLog == [req |-> BaseReq, t |-> 0, user |-> NoUser, status |-> 0, out |-> NoOut]

\* The client side of a request: who asks, through which revision.
Callers(vers, cookies, hdrs, kvF, syncF) ==
    { [BaseReq EXCEPT !.ver = v, !.cookie = c, !.hdr = h, !.kvFails = k,
                      !.syncFails = s] :
        v \in vers, c \in cookies, h \in hdrs, k \in kvF, s \in syncF }

\* The URL path of a request.
PathOf(req) ==
    CASE req.route = "GET /health" -> "/health"
      [] req.route = "POST /api/posts" -> "/api/posts"
      [] req.route \in {"PUT /api/posts/:slug", "DELETE /api/posts/:slug"} ->
            "/api/posts/" \o req.slug
      [] req.route = "GET /about" -> "/about"
      [] req.route = "GET /favicon.ico" -> "/favicon.ico"
      [] OTHER -> req.route

\* c.get('user') for a request to the Hono worker.
ReqUser(req) ==
    UserAfterSync(HonoUser(req.ver, PathOf(req), req.cookie, req.hdr,
                           req.kvFails),
                  req.syncFails)

\* Effect of the session middleware on the mirror, and the response record.
Middleware(req, user) ==
    users' = SyncUser(users, Syncs(req.ver), user, req.syncFails)

\* The Astro middleware syncs only a principal it resolved itself.
AstroMiddleware(req, user) ==
    users' = IF AstroBypass(PathOf(req)) THEN users
             ELSE SyncUser(users, Syncs(req.ver), user, req.syncFails)

Respond(req, user, status, out) ==
    last' = [req |-> req, t |-> now, user |-> user, status |-> status, out |-> out]

----------------------------------------------------------------------------
(* Validation schemas (zod) *)

TitleMin == 3
TitleMax == 200
ContentMin == 10
ExcerptMax == 300

AlnumChars == "abcdefghijklmnopqrstuvwxyz0123456789"
IsAlnum(ch) == \E i \in 1..Len(AlnumChars) : SubSeq(AlnumChars, i, i) = ch

\* slug: z.string().regex(/^[a-z0-9-]+$/)
SlugOk(str) ==
    /\ Len(str) >= 1
    /\ \A i \in 1..Len(str) : IsAlnum(SubSeq(str, i, i)) \/ SubSeq(str, i, i) = "-"

TitleOk(str) == Len(str) >= TitleMin /\ Len(str) <= TitleMax
ContentOk(str) == Len(str) >= ContentMin
ExcerptOk(str) == Len(str) <= ExcerptMax

\* PostSchema.parse(data) does not throw
PostSchemaOk(body) ==
    /\ body.title # ABSENT /\ TitleOk(body.title)
    /\ body.slug # ABSENT /\ SlugOk(body.slug)
    /\ body.content # ABSENT /\ ContentOk(body.content)
    /\ body.excerpt # ABSENT => ExcerptOk(body.excerpt)

\* PostSchema.partial().parse(data) does not throw
PostPartialOk(body) ==
    /\ body.title # ABSENT => TitleOk(body.title)
    /\ body.slug # ABSENT => SlugOk(body.slug)
    /\ body.content # ABSENT => ContentOk(body.content)
    /\ body.excerpt # ABSENT => ExcerptOk(body.excerpt)

\* Object.entries(validated): the schema's keys the body carries
PostFields == {"title", "slug", "content", "excerpt"}
Supplied(body) == {f \in PostFields : body[f] # ABSENT}

----------------------------------------------------------------------------
(* Hono: posts *)

PageKey(page) == <<"posts:page", page>>

\* CACHE.delete(key)
CacheDelete(kv, key) == [k \in DOMAIN kv \ {key} |-> kv[k]]

\* Faulty variant: a gate that lets every request through.
MayWriteUngated(ver, user) == TRUE

\* !user || (user.role !== c.env.ADMIN_ROLE && user.role !== 'owner');
\* the header revision admits the admin role only.
MayWritePosts(ver, user) ==
    /\ user # NoUser
    /\ \/ user.role = ADMIN_ROLE
       \/ ver # "header" /\ user.role = "owner"

SlugTaken(slug, except) ==
    \E p \in DOMAIN posts : p \notin except /\ posts[p].slug = slug

NewDraft(body, authorId) ==
    [title |-> body.title, slug |-> body.slug, content |-> body.content,
     excerpt |-> IF body.excerpt \in {ABSENT, ""} THEN "" ELSE body.excerpt,
     featured_image_url |-> NULL, author_id |-> authorId, status |-> "draft",
     created_at |-> NowSec, updated_at |-> NowSec, published_at |-> None]

\* POST /posts
HonoCreatePost(req) ==
    LET user == ReqUser(req) IN
    /\ req.route = "POST /posts"
    /\ nextPostId <= MaxPosts
    /\ Middleware(req, user)
    /\ UNCHANGED <<now, ADMIN_ROLE, comments, nextCommentId, media, usage_quota,
                   outbound>>
    /\ IF ~MayWritePosts(req.ver, user)
       THEN /\ Respond(req, user, 403, NoOut)
            /\ UNCHANGED <<posts, nextPostId, cache>>
       ELSE IF \/ ~PostSchemaOk(req.body)
               \/ req.dbFails
               \/ SlugTaken(req.body.slug, {})
       THEN /\ Respond(req, user, 400, NoOut)
            /\ UNCHANGED <<posts, nextPostId, cache>>
       ELSE /\ posts' = [id \in DOMAIN posts \cup {nextPostId} |->
                           IF id = nextPostId THEN NewDraft(req.body, user.id)
                           ELSE posts[id]]
            /\ nextPostId' = nextPostId + 1
            /\ cache' = CacheDelete(cache, PageKey(1))
            /\ Respond(req, user, 201, NoOut)

\* Faulty variant: the WHERE clause without the author predicate.
MatchesAnyAuthor(id, authorId) == id \in DOMAIN posts

\* WHERE id = ? AND author_id = ?
Matches(id, authorId) == id \in DOMAIN posts /\ posts[id].author_id = authorId

\* UPDATE posts SET <supplied>, updated_at = ?
UpdatedPost(row, body) ==
    [row EXCEPT !.title = IF body.title # ABSENT THEN body.title ELSE @,
                !.slug = IF body.slug # ABSENT THEN body.slug ELSE @,
                !.content = IF body.content # ABSENT THEN body.content ELSE @,
                !.excerpt = IF body.excerpt # ABSENT THEN body.excerpt ELSE @,
                !.updated_at = NowSec]


\* The statement built from an empty partial, "UPDATE posts SET , updated_at = ?",
\* is not SQL: run() throws.
UpdateSqlOk(body) == Supplied(body) # {}

\* PUT /posts/:id
HonoUpdatePost(req) ==
    LET user == ReqUser(req) IN
    /\ req.route = "PUT /posts/:id"
    /\ Middleware(req, user)
    /\ UNCHANGED <<now, ADMIN_ROLE, nextPostId, comments, nextCommentId, media,
                   usage_quota, outbound, cache>>
    /\ IF ~MayWritePosts(req.ver, user)
       THEN /\ Respond(req, user, 403, NoOut)
            /\ UNCHANGED posts
       ELSE IF \/ ~PostPartialOk(req.body)
               \/ ~UpdateSqlOk(req.body)
               \/ req.dbFails
               \/ /\ Matches(req.id, user.id)
                  /\ req.body.slug # ABSENT
                  /\ SlugTaken(req.body.slug, {req.id})
       THEN /\ Respond(req, user, 400, NoOut)
            /\ UNCHANGED posts
       ELSE /\ posts' = [id \in DOMAIN posts |->
                           IF id = req.id /\ Matches(id, user.id)
                           THEN UpdatedPost(posts[id], req.body)
                           ELSE posts[id]]
            /\ Respond(req, user, 200, NoOut)

\* SET status = 'published', published_at = ?, updated_at = ?
PublishedPost(row) ==
    [row EXCEPT !.status = "published", !.published_at = Some(NowSec),
                !.updated_at = NowSec]

\* POST /posts/:id/publish (no try/catch: a throwing statement is a 500)
HonoPublishPost(req) ==
    LET user == ReqUser(req) IN
    /\ req.route = "POST /posts/:id/publish"
    /\ Middleware(req, user)
    /\ UNCHANGED <<now, ADMIN_ROLE, nextPostId, comments, nextCommentId, media,
                   usage_quota, outbound>>
    /\ IF ~MayWritePosts(req.ver, user)
       THEN /\ Respond(req, user, 403, NoOut)
            /\ UNCHANGED <<posts, cache>>
       ELSE IF req.dbFails
       THEN /\ Respond(req, user, 500, NoOut)
            /\ UNCHANGED <<posts, cache>>
       ELSE /\ posts' = [id \in DOMAIN posts |->
                           IF id = req.id /\ Matches(id, user.id)
                           THEN PublishedPost(posts[id])
                           ELSE posts[id]]
            /\ cache' = CacheDelete(cache, PageKey(1))
            /\ Respond(req, user, 200, NoOut)

----------------------------------------------------------------------------
(* Hono: GET /posts *)

Published == {id \in DOMAIN posts : posts[id].status = "published"}

\* ORDER BY published_at DESC (NULL sorts last; ties in rowid order)
PubKey(id) == IF posts[id].published_at = None THEN 0 ELSE posts[id].published_at[1]
ListedBefore(a, b) == PubKey(a) > PubKey(b) \/ (PubKey(a) = PubKey(b) /\ a < b)

RECURSIVE Ordered(_)
Ordered(ids) ==
    IF ids = {} THEN <<>>
    ELSE LET first == CHOOSE a \in ids : \A b \in ids \ {a} : ListedBefore(a, b)
         IN <<first>> \o Ordered(ids \ {first})

IsDigit(ch) == \E d \in 0..9 : SubSeq(Digits, d + 1, d + 1) = ch
DigitValue(ch) == CHOOSE d \in 0..9 : SubSeq(Digits, d + 1, d + 1) = ch

\* The end of the run of digits that starts at position i (i - 1 when none does).
RECURSIVE DigitsEnd(_, _)
DigitsEnd(str, i) ==
    IF i <= Len(str) /\ IsDigit(SubSeq(str, i, i)) THEN DigitsEnd(str, i + 1) ELSE i - 1

RECURSIVE Decimal(_, _, _)
Decimal(str, i, j) ==
    IF j < i THEN 0
    ELSE 10 * Decimal(str, i, j - 1) + DigitValue(SubSeq(str, j, j))

RECURSIVE SkipBlanks(_, _)
SkipBlanks(str, i) ==
    IF i <= Len(str) /\ SubSeq(str, i, i) = " " THEN SkipBlanks(str, i + 1) ELSE i

\* parseInt(str) for decimal text: blanks, a sign, then the leading digits;
\* None is NaN.
parseInt(str) ==
    LET b == SkipBlanks(str, 1)
        signed == b <= Len(str) /\ SubSeq(str, b, b) \in {"-", "+"}
        from == IF signed THEN b + 1 ELSE b
        to == DigitsEnd(str, from)
    IN IF to < from THEN None
       ELSE IF signed /\ SubSeq(str, b, b) = "-"
       THEN Some(0 - Decimal(str, from, to))
       ELSE Some(Decimal(str, from, to))

\* c.req.query(name) || fallback
QueryOr(raw, fallback) == IF raw \in {ABSENT, ""} THEN fallback ELSE raw

PageOf(req) == parseInt(QueryOr(req.page, "1"))
LimitOf(req) == parseInt(QueryOr(req.limit, "10"))

\* (page - 1) * limit
OffsetOf(req) ==
    IF PageOf(req) = None \/ LimitOf(req) = None THEN None
    ELSE Some((PageOf(req)[1] - 1) * LimitOf(req)[1])

\* `posts:page:${page}`
PageKeyOf(page) == IF page = None THEN <<"posts:page:NaN", 0>> ELSE PageKey(page[1])

\* LIMIT ? OFFSET ?: a negative limit is no limit, a negative offset is 0
Window(seq, limit, offset) ==
    LET from == IF offset < 0 THEN 0 ELSE offset
        to == IF limit < 0 \/ from + limit > Len(seq) THEN Len(seq) ELSE from + limit
    IN SubSeq(seq, from + 1, to)

\* Math.ceil(total / limit) for a positive limit
Ceil(total, limit) == (total + limit - 1) \div limit

\* Math.ceil(total / limit) as JSON prints it: Infinity and NaN print as null
Pages(total, limit) ==
    IF limit = 0 THEN None
    ELSE IF limit > 0 THEN Some(Ceil(total, limit))
    ELSE Some(0 - (total \div (0 - limit)))

\* The selected columns; the syncing revision joins the users mirror.
Listed(id, joins) ==
    [id |-> id, title |-> posts[id].title, slug |-> posts[id].slug,
     published_at |-> posts[id].published_at, author_id |-> posts[id].author_id,
     author_name |-> IF ~joins THEN ABSENT
                     ELSE IF posts[id].author_id \in DOMAIN users'
                          THEN users'[posts[id].author_id].username
                          ELSE NULL]

ListResponse(page, limit, joins) ==
    LET rows == Window(Ordered(Published), limit, (page - 1) * limit) IN
    <<[posts |-> [i \in 1..Len(rows) |-> Listed(rows[i], joins)],
       total |-> Cardinality(Published),
       page |-> page,
       pages |-> Pages(Cardinality(Published), limit)]>>

\* GET /posts: the KV revisions without the mirror read through CACHE. A NaN
\* bound to LIMIT or OFFSET reaches the database as NULL, which the statement
\* rejects; the handler does not catch it.
HonoListPosts(req) ==
    LET user == ReqUser(req)
        page == PageOf(req)
        limit == LimitOf(req)
        key == PageKeyOf(page)
    IN
    /\ req.route = "GET /posts"
    /\ Middleware(req, user)
    /\ UNCHANGED <<now, ADMIN_ROLE, posts, nextPostId, comments, nextCommentId,
                   media, usage_quota, outbound>>
    /\ IF req.ver # "kv_sync" /\ key \in DOMAIN cache
       THEN /\ Respond(req, user, 200, cache[key])
            /\ UNCHANGED cache
       ELSE IF page = None \/ limit = None
       THEN /\ Respond(req, user, 500, NoOut)
            /\ UNCHANGED cache
       ELSE IF req.ver = "kv_sync"
       THEN /\ Respond(req, user, 200, ListResponse(page[1], limit[1], TRUE))
            /\ UNCHANGED cache
       ELSE /\ cache' = [k \in DOMAIN cache \cup {key} |->
                           IF k = key THEN ListResponse(page[1], limit[1], FALSE)
                           ELSE cache[k]]
            /\ Respond(req, user, 200, ListResponse(page[1], limit[1], FALSE))

----------------------------------------------------------------------------
(* Hono: GET /posts/:slug and GET /walls/:id *)

\* The rows of message_walls: no route of the worker inserts or deletes one.
message_walls == {"w1"}

SlugKey(slug) == <<"post", slug>>

\* ORDER BY created_at DESC (ties in rowid order)
Newer(a, b) ==
    \/ comments[a].created_at > comments[b].created_at
    \/ comments[a].created_at = comments[b].created_at /\ a < b

RECURSIVE NewestFirst(_)
NewestFirst(ids) ==
    IF ids = {} THEN <<>>
    ELSE LET first == CHOOSE a \in ids : \A b \in ids \ {a} : Newer(a, b)
         IN <<first>> \o NewestFirst(ids \ {first})

\* SELECT id, content, ..., created_at, status
CommentRows(ids) ==
    LET order == NewestFirst(ids) IN
    [i \in 1..Len(order) |->
        [id |-> order[i], content |-> comments[order[i]].content,
         created_at |-> comments[order[i]].created_at]]

\* FROM comments WHERE post_id = ? AND status = 'approved'
PostComments(id) ==
    {c \in DOMAIN comments :
        comments[c].post_id = Some(id) /\ comments[c].status = "approved"}

\* FROM comments WHERE wall_id = ? AND parent_comment_id IS NULL AND status = 'approved'
WallComments(wallId) ==
    {c \in DOMAIN comments :
        /\ comments[c].wall_id = wallId
        /\ comments[c].parent_comment_id = None
        /\ comments[c].status = "approved"}

\* SELECT * FROM posts WHERE slug = ? AND status = 'published'
PublishedBySlug(slug) ==
    {p \in DOMAIN posts : posts[p].slug = slug /\ posts[p].status = "published"}

\* { post, comments: comments.results }
PostResponse(id) ==
    <<[post |-> [id |-> id, slug |-> posts[id].slug, content |-> posts[id].content,
                status |-> posts[id].status],
       comments |-> CommentRows(PostComments(id))]>>

\* GET /posts/:slug: the revisions without the mirror read through CACHE and
\* answer JSON; the syncing revision queries every time and negotiates.
HonoGetPost(req) ==
    LET user == ReqUser(req)
        found == PublishedBySlug(req.slug)
    IN
    /\ req.route = "GET /posts/:slug"
    /\ Middleware(req, user)
    /\ UNCHANGED <<now, ADMIN_ROLE, posts, nextPostId, comments, nextCommentId,
                   media, usage_quota, outbound>>
    /\ IF req.ver # "kv_sync" /\ SlugKey(req.slug) \in DOMAIN cache
       THEN /\ Respond(req, user, 200, cache[SlugKey(req.slug)])
            /\ UNCHANGED cache
       ELSE IF found = {}
       THEN /\ Respond(req, user, 404, NoOut)
            /\ UNCHANGED cache
       ELSE LET response == PostResponse(CHOOSE p \in found : TRUE) IN
            /\ Respond(req, user, 200, response)
            /\ cache' = IF req.ver = "kv_sync" THEN cache
                         ELSE [k \in DOMAIN cache \cup {SlugKey(req.slug)} |->
                                 IF k = SlugKey(req.slug) THEN response ELSE cache[k]]

\* The GET routes below /posts/ in the order in which each revision registers
\* them; the later revision of index.ts registers no /posts/new.
PostsRoutes(ver) ==
    CASE ver = "kv_sync" -> <<"GET /posts/new", "GET /posts/:slug">>
      [] ver = "kv" -> <<"GET /posts/:slug", "GET /posts/new">>
      [] OTHER -> <<"GET /posts/:slug">>

\* A pattern against the path /posts/<segment>
PatternMatches(pattern, segment) ==
    pattern = "GET /posts/:slug" \/ (pattern = "GET /posts/new" /\ segment = "new")

\* The router hands the request to the first registered route that matches.
Dispatch(ver, segment) ==
    LET table == PostsRoutes(ver)
        first == CHOOSE i \in 1..Len(table) :
                    /\ PatternMatches(table[i], segment)
                    /\ \A j \in 1..(i - 1) : ~PatternMatches(table[j], segment)
    IN table[first]

\* GET /posts/new: the editor page, or a redirect for who may not write
HonoNewPostPage(req) ==
    LET user == ReqUser(req) IN
    /\ req.route = "GET /posts/new"
    /\ Middleware(req, user)
    /\ UNCHANGED <<now, ADMIN_ROLE, stores>>
    /\ IF MayWritePosts(req.ver, user)
       THEN Respond(req, user, 200, NoOut)
       ELSE Respond(req, user, 302, NoOut)

\* A GET for the path /posts/<segment>, dispatched by the router
HonoGetPostsPath(req, segment) ==
    LET handler == Dispatch(req.ver, segment) IN
    IF handler = "GET /posts/new"
    THEN HonoNewPostPage([req EXCEPT !.route = handler, !.slug = segment])
    ELSE HonoGetPost([req EXCEPT !.route = handler, !.slug = segment])

\* GET /walls/:id
HonoGetWall(req) ==
    LET user == ReqUser(req) IN
    /\ req.route = "GET /walls/:id"
    /\ Middleware(req, user)
    /\ UNCHANGED <<now, ADMIN_ROLE, stores>>
    /\ IF req.wall \notin message_walls
       THEN Respond(req, user, 404, NoOut)
       ELSE Respond(req, user, 200,
                    <<[comments |-> CommentRows(WallComments(req.wall))]>>)

\* expirationTtl: an entry put by a read leaves the cache when its TTL is over.
CacheExpire ==
    /\ \E k \in DOMAIN cache : cache' = CacheDelete(cache, k)
    /\ UNCHANGED <<now, ADMIN_ROLE, users, posts, nextPostId, comments,
                   nextCommentId, media, usage_quota, outbound, last>>

\* The database is shared: comments on a post are rows with post_id set, which
\* the queries above read and no route of the worker inserts.
PostCommentInserted(postId, status) ==
    /\ nextCommentId <= MaxComments
    /\ postId \in DOMAIN posts
    /\ comments' = [id \in DOMAIN comments \cup {nextCommentId} |->
                      IF id = nextCommentId
                      THEN [content |-> "hi", author_id |-> NULL,
                            author_name |-> "Anonymous", post_id |-> Some(postId),
                            wall_id |-> NULL, parent_comment_id |-> None,
                            status |-> status, created_at |-> NowSec]
                      ELSE comments[id]]
    /\ nextCommentId' = nextCommentId + 1
    /\ last' = [NoLog EXCEPT !.req.route = "INSERT INTO comments", !.t = now]
    /\ UNCHANGED <<now, ADMIN_ROLE, users, posts, nextPostId, media, usage_quota,
                   cache, outbound>>

----------------------------------------------------------------------------
(* Astro: /api/posts endpoints on D1 *)

UpperChars == "ABCDEFGHIJKLMNOPQRSTUVWXYZ"

\* String.prototype.toLowerCase, one character
LowerCh(ch) ==
    IF \E i \in 1..Len(UpperChars) : SubSeq(UpperChars, i, i) = ch
    THEN LET i == CHOOSE i \in 1..Len(UpperChars) : SubSeq(UpperChars, i, i) = ch
         IN SubSeq(AlnumChars, i, i)
    ELSE ch

\* .toLowerCase().replace(/[^a-z0-9]+/g, '-'), left to right
RECURSIVE Dashed(_, _, _)
Dashed(str, i, inRun) ==
    IF i > Len(str) THEN ""
    ELSE LET ch == LowerCh(SubSeq(str, i, i)) IN
         IF IsAlnum(ch) THEN ch \o Dashed(str, i + 1, FALSE)
         ELSE IF inRun THEN Dashed(str, i + 1, TRUE)
         ELSE "-" \o Dashed(str, i + 1, TRUE)

\* .replace(/^-|-$/g, '')
Trimmed(str) ==
    LET a == IF Len(str) >= 1 /\ SubSeq(str, 1, 1) = "-"
             THEN SubSeq(str, 2, Len(str)) ELSE str
    IN IF Len(a) >= 1 /\ SubSeq(a, Len(a), Len(a)) = "-"
       THEN SubSeq(a, 1, Len(a) - 1) ELSE a

baseSlug(title) == Trimmed(Dashed(title, 1, FALSE))

\* slug LIKE 'base%'
Like(slug, base) == Len(slug) >= Len(base) /\ SubSeq(slug, 1, Len(base)) = base

\* Number -> string, for the counts the model reaches
Str(n) == IF n < 10 THEN SubSeq(Digits, n + 1, n + 1)
          ELSE SubSeq(Digits, (n \div 10) + 1, (n \div 10) + 1)
               \o SubSeq(Digits, (n % 10) + 1, (n % 10) + 1)

\* existing?.count ? `${baseSlug}-${existing.count + 1}` : baseSlug
NewSlug(title) ==
    LET count == Cardinality({p \in DOMAIN posts : Like(posts[p].slug, baseSlug(title))})
    IN IF count > 0 THEN baseSlug(title) \o "-" \o Str(count + 1) ELSE baseSlug(title)

\* e.message of an exception the database client throws
ExceptionText == "D1_ERROR: statement failed"

\* JSON.stringify({ error: e.message })
ErrorBody(e) == <<[error |-> e]>>

\* !user || (user.role !== 'owner' && user.role !== 'admin')
AstroMayWrite(user) == user # NoUser /\ user.role \in {"owner", "admin"}

\* !user || user.role !== 'owner'
AstroMayDelete(user) == user # NoUser /\ user.role = "owner"

\* JS truthiness of a body string: absent and '' are falsy
Falsy(v) == v \in {ABSENT, NULL, ""}

AstroNewPost(body, authorId) ==
    [title |-> body.title, slug |-> NewSlug(body.title), content |-> body.content,
     excerpt |-> IF Falsy(body.excerpt) THEN "" ELSE body.excerpt,
     featured_image_url |-> IF Falsy(body.featured_image_url) THEN NULL
                            ELSE body.featured_image_url,
     author_id |-> authorId,
     status |-> IF Falsy(body.status) THEN "draft" ELSE body.status,
     created_at |-> NowSec, updated_at |-> NowSec,
     published_at |-> IF body.status = "published" THEN Some(NowSec) ELSE None]

\* locals.user of a request to an /api/ path
AstroReqUser(req) ==
    UserAfterSync(AstroUser(PathOf(req), req.cookie, req.kvFails, req.localsUser),
                  req.syncFails)

\* POST /api/posts
AstroCreatePost(req) ==
    LET user == AstroReqUser(req) IN
    /\ req.route = "POST /api/posts"
    /\ nextPostId <= MaxPosts
    /\ AstroMiddleware(req, user)
    /\ UNCHANGED <<now, ADMIN_ROLE, comments, nextCommentId, media,
                   usage_quota, outbound, cache>>
    /\ IF ~AstroMayWrite(user)
       THEN /\ Respond(req, user, 401, NoOut)
            /\ UNCHANGED <<posts, nextPostId>>
       ELSE IF Falsy(req.body.title) \/ Falsy(req.body.content)
       THEN /\ Respond(req, user, 400, NoOut)
            /\ UNCHANGED <<posts, nextPostId>>
       ELSE IF req.dbFails \/ SlugTaken(NewSlug(req.body.title), {})
       THEN /\ Respond(req, user, 500, ErrorBody(ExceptionText))
            /\ UNCHANGED <<posts, nextPostId>>
       ELSE /\ posts' = [id \in DOMAIN posts \cup {nextPostId} |->
                           IF id = nextPostId THEN AstroNewPost(req.body, user.id)
                           ELSE posts[id]]
            /\ nextPostId' = nextPostId + 1
            /\ Respond(req, user, 201, NoOut)

\* UPDATE posts SET title = ?, ... WHERE slug = ?
AstroUpdatedPost(row, body) ==
    [row EXCEPT
       !.title = IF Falsy(body.title) THEN @ ELSE body.title,
       !.content = IF Falsy(body.content) THEN @ ELSE body.content,
       !.excerpt = IF body.excerpt \in {ABSENT, NULL} THEN @ ELSE body.excerpt,
       !.featured_image_url = IF body.featured_image_url \in {ABSENT, NULL} THEN @
                              ELSE body.featured_image_url,
       !.status = IF Falsy(body.status) THEN @ ELSE body.status,
       !.published_at = IF body.status = "published" /\ (@ = None \/ @ = Some(0))
                        THEN Some(NowSec) ELSE @,
       !.updated_at = NowSec]

\* PUT /api/posts/:slug
AstroUpdatePost(req) ==
    LET user == AstroReqUser(req) IN
    /\ req.route = "PUT /api/posts/:slug"
    /\ AstroMiddleware(req, user)
    /\ UNCHANGED <<now, ADMIN_ROLE, nextPostId, comments, nextCommentId,
                   media, usage_quota, outbound, cache>>
    /\ IF ~AstroMayWrite(user)
       THEN /\ Respond(req, user, 401, NoOut)
            /\ UNCHANGED posts
       ELSE IF req.dbFails
       THEN /\ Respond(req, user, 500, ErrorBody(ExceptionText))
            /\ UNCHANGED posts
       ELSE IF ~\E p \in DOMAIN posts : posts[p].slug = req.slug
       THEN /\ Respond(req, user, 404, NoOut)
            /\ UNCHANGED posts
       ELSE /\ posts' = [id \in DOMAIN posts |->
                           IF posts[id].slug = req.slug
                           THEN AstroUpdatedPost(posts[id], req.body)
                           ELSE posts[id]]
            /\ Respond(req, user, 200, NoOut)


\* ON DELETE CASCADE from posts and from parent comments, to a fixpoint
RECURSIVE Cascade(_, _, _)
Cascade(tbl, gonePosts, gone) ==
    LET more == {c \in DOMAIN tbl \ gone :
                    \/ tbl[c].post_id \in gonePosts
                    \/ tbl[c].parent_comment_id \in {Some(g) : g \in gone}}
    IN IF more = {} THEN [c \in DOMAIN tbl \ gone |-> tbl[c]]
       ELSE Cascade(tbl, gonePosts, gone \cup more)

\* media.post_id / media.comment_id: ON DELETE SET NULL
MediaAfterDelete(rows, gonePosts, goneComments) ==
    { [m EXCEPT !.post_id = IF @ \in gonePosts THEN None ELSE @,
                !.comment_id = IF @ \in goneComments THEN None ELSE @] : m \in rows }

\* DELETE /api/posts/:slug
AstroDeletePost(req) ==
    LET user == AstroReqUser(req)
        gone == {p \in DOMAIN posts : posts[p].slug = req.slug}
        gonePosts == {Some(p) : p \in gone}
    IN
    /\ req.route = "DELETE /api/posts/:slug"
    /\ AstroMiddleware(req, user)
    /\ UNCHANGED <<now, ADMIN_ROLE, nextPostId, nextCommentId, usage_quota,
                   outbound, cache>>
    /\ IF ~AstroMayDelete(user)
       THEN /\ Respond(req, user, 401, NoOut)
            /\ UNCHANGED <<posts, comments, media>>
       ELSE IF req.dbFails
       THEN /\ Respond(req, user, 500, ErrorBody(ExceptionText))
            /\ UNCHANGED <<posts, comments, media>>
       ELSE /\ posts' = [id \in DOMAIN posts \ gone |-> posts[id]]
            /\ comments' = Cascade(comments, gonePosts, {})
            /\ media' = MediaAfterDelete(media, gonePosts,
                                         {Some(c) : c \in DOMAIN comments \ DOMAIN comments'})
            /\ Respond(req, user, 200, NoOut)

\* A page route: the middleware resolves the session, the page renders.
AstroPage(req) ==
    LET user == AstroReqUser(req) IN
    /\ req.route \in {"GET /about", "GET /favicon.ico"}
    /\ AstroMiddleware(req, user)
    /\ UNCHANGED <<now, ADMIN_ROLE, stores>>
    /\ Respond(req, user, 200, NoOut)

----------------------------------------------------------------------------
(* Hono: message walls and moderation *)

CommentMin == 1
CommentMax == 5000

\* CommentSchema.parse(data) does not throw
CommentSchemaOk(c) ==
    c.content # ABSENT /\ Len(c.content) >= CommentMin /\ Len(c.content) <= CommentMax

\* Faulty variant: every privileged role is auto-approved.
CommentStatusPrivileged(user) ==
    IF user # NoUser /\ user.role \in {"admin", "owner"} THEN "approved" ELSE "pending"

\* user && user.role === c.env.ADMIN_ROLE ? 'approved' : 'pending'
CommentStatus(user) ==
    IF user # NoUser /\ user.role = ADMIN_ROLE THEN "approved" ELSE "pending"

\* INSERT INTO comments (id, content, author_id, author_name, wall_id, status, ...)
NewComment(c, wallId, user) ==
    [content |-> c.content,
     author_id |-> user.id,
     author_name |-> IF Falsy(c.author_name) THEN "Anonymous" ELSE c.author_name,
     post_id |-> None, wall_id |-> wallId, parent_comment_id |-> None,
     status |-> CommentStatus(user), created_at |-> NowSec]

\* POST /walls/:id/comments
HonoAddComment(req) ==
    LET user == ReqUser(req) IN
    /\ req.route = "POST /walls/:id/comments"
    /\ nextCommentId <= MaxComments
    /\ Middleware(req, user)
    /\ UNCHANGED <<now, ADMIN_ROLE, posts, nextPostId, media, usage_quota,
                   outbound, cache>>
    /\ IF ~CommentSchemaOk(req.comment) \/ req.dbFails
       THEN /\ Respond(req, user, 400, NoOut)
            /\ UNCHANGED <<comments, nextCommentId>>
       ELSE /\ comments' = [id \in DOMAIN comments \cup {nextCommentId} |->
                              IF id = nextCommentId
                              THEN NewComment(req.comment, req.wall, user)
                              ELSE comments[id]]
            /\ nextCommentId' = nextCommentId + 1
            /\ Respond(req, user, 201, <<[id |-> nextCommentId,
                                         status |-> CommentStatus(user)]>>)

\* !user || user.role !== c.env.ADMIN_ROLE
IsAdmin(user) == user # NoUser /\ user.role = ADMIN_ROLE

\* GET /admin/posts, GET /admin/comments
HonoAdminList(req) ==
    LET user == ReqUser(req) IN
    /\ req.route \in {"GET /admin/posts", "GET /admin/comments"}
    /\ Middleware(req, user)
    /\ UNCHANGED <<now, ADMIN_ROLE, stores>>
    /\ IF ~IsAdmin(user)
       THEN Respond(req, user, 403, NoOut)
       ELSE IF req.dbFails
       THEN Respond(req, user, 500, NoOut)
       ELSE IF req.route = "GET /admin/posts"
       THEN Respond(req, user, 200, <<DOMAIN posts>>)
       ELSE Respond(req, user, 200,
                    <<{c \in DOMAIN comments : comments[c].status = "pending"}>>)

\* POST /admin/comments/:id/approve
HonoApproveComment(req) ==
    LET user == ReqUser(req) IN
    /\ req.route = "POST /admin/comments/:id/approve"
    /\ Middleware(req, user)
    /\ UNCHANGED <<now, ADMIN_ROLE, posts, nextPostId, nextCommentId, media,
                   usage_quota, outbound, cache>>
    /\ IF ~IsAdmin(user)
       THEN /\ Respond(req, user, 403, NoOut)
            /\ UNCHANGED comments
       ELSE IF req.dbFails
       THEN /\ Respond(req, user, 500, NoOut)
            /\ UNCHANGED comments
       ELSE /\ comments' = [id \in DOMAIN comments |->
                              IF id = req.id
                              THEN [comments[id] EXCEPT !.status = "approved"]
                              ELSE comments[id]]
            /\ Respond(req, user, 200, NoOut)

\* DELETE /admin/comments/:id
HonoDeleteComment(req) ==
    LET user == ReqUser(req) IN
    /\ req.route = "DELETE /admin/comments/:id"
    /\ Middleware(req, user)
    /\ UNCHANGED <<now, ADMIN_ROLE, posts, nextPostId, nextCommentId,
                   usage_quota, outbound, cache>>
    /\ IF ~IsAdmin(user)
       THEN /\ Respond(req, user, 403, NoOut)
            /\ UNCHANGED <<comments, media>>
       ELSE IF req.dbFails
       THEN /\ Respond(req, user, 500, NoOut)
            /\ UNCHANGED <<comments, media>>
       ELSE /\ comments' = Cascade(comments, {}, DOMAIN comments \cap {req.id})
            /\ media' = MediaAfterDelete(media, {},
                                         {Some(c) : c \in DOMAIN comments \ DOMAIN comments'})
            /\ Respond(req, user, 200, NoOut)

----------------------------------------------------------------------------
(* Hono: uploads and media *)

BytesPerGb == 1024 * 1024 * 1024

\* env.MAX_FILE_SIZE and env.FREE_TIER_LIMIT_GB of the modelled deployment
MAX_FILE_SIZE == BytesPerGb \div 2 + 1
FREE_TIER_LIMIT_GB == 1

\* Faulty variant: the upstream status passed on as it is.
asVerbatim(status) == status

\* (status >= 200 ? status : 500)
asStatus(status) == IF status >= 200 THEN status ELSE 500

\* Response.ok
ResponseOk(status) == status >= 200 /\ status <= 299

\* Faulty variant: the quota row is never read.
UsedNothing(userId) == 0

\* quota?.total_bytes_used || 0
UsedBytes(userId) ==
    IF userId \in DOMAIN usage_quota THEN usage_quota[userId].total_bytes_used ELSE 0

QuotaLimit == FREE_TIER_LIMIT_GB * BytesPerGb

\* file.type.startsWith('audio') ? 'audio' : startsWith('image') ? 'image' : 'video'
FileType(type) ==
    IF Len(type) >= 5 /\ SubSeq(type, 1, 5) = "audio" THEN "audio"
    ELSE IF Len(type) >= 5 /\ SubSeq(type, 1, 5) = "image" THEN "image"
    ELSE "video"

\* The key the storage service returns for the n-th call: user_id/n
StorageKey(userId, n) == userId \o "/" \o Str(n)

NewMedia(req, userId, n) ==
    [id |-> n, file_size |-> req.file.size, file_type |-> FileType(req.file.type),
     r2_key |-> StorageKey(userId, n),
     post_id |-> IF req.target.type = "post" THEN Some(req.target.id) ELSE None,
     comment_id |-> IF req.target.type = "comment" THEN Some(req.target.id) ELSE None,
     uploaded_by |-> userId]

\* Faulty variant: the row is rewritten from nothing on every upload.
QuotaOverwrite(tbl, userId, size) ==
    [u \in DOMAIN tbl \cup {userId} |->
        IF u # userId THEN tbl[u]
        ELSE [total_bytes_used |-> size, total_files |-> 1]]

\* INSERT INTO usage_quota ... ON CONFLICT(user_id) DO UPDATE SET
\*   total_bytes_used = total_bytes_used + ?, total_files = total_files + 1
QuotaUpsert(tbl, userId, size) ==
    [u \in DOMAIN tbl \cup {userId} |->
        IF u # userId THEN tbl[u]
        ELSE IF userId \in DOMAIN tbl
             THEN [total_bytes_used |-> tbl[u].total_bytes_used + size,
                   total_files |-> tbl[u].total_files + 1]
             ELSE [total_bytes_used |-> size, total_files |-> 1]]

Call(op, userId, key) == [op |-> op, by |-> userId, key |-> key]

\* POST /upload
HonoUpload(req) ==
    LET user == ReqUser(req)
        n == Len(outbound) + 1
    IN
    /\ req.route = "POST /upload"
    /\ Middleware(req, user)
    /\ UNCHANGED <<now, ADMIN_ROLE, posts, nextPostId, comments, nextCommentId, cache>>
    /\ IF user = NoUser
       THEN /\ Respond(req, user, 401, NoOut)
            /\ UNCHANGED <<media, usage_quota, outbound>>
       ELSE IF ~req.file.present
       THEN /\ Respond(req, user, 400, NoOut)
            /\ UNCHANGED <<media, usage_quota, outbound>>
       ELSE IF req.file.size > MAX_FILE_SIZE
       THEN /\ Respond(req, user, 413, NoOut)
            /\ UNCHANGED <<media, usage_quota, outbound>>
       ELSE IF req.failAt = "quota_read"
       THEN /\ Respond(req, user, 500, NoOut)
            /\ UNCHANGED <<media, usage_quota, outbound>>
       ELSE IF UsedBytes(user.id) + req.file.size > QuotaLimit
       THEN /\ Respond(req, user, 429, NoOut)
            /\ UNCHANGED <<media, usage_quota, outbound>>
       ELSE /\ Len(outbound) < MaxOutbound
            /\ outbound' = Append(outbound, Call("upload", user.id, StorageKey(user.id, n)))
            /\ IF req.upstream.throws
               THEN /\ Respond(req, user, 500, NoOut)
                    /\ UNCHANGED <<media, usage_quota>>
               ELSE IF ~ResponseOk(req.upstream.status)
               THEN /\ Respond(req, user, asStatus(req.upstream.status), NoOut)
                    /\ UNCHANGED <<media, usage_quota>>
               ELSE IF req.failAt = "media_insert"
               THEN /\ Respond(req, user, 500, NoOut)
                    /\ UNCHANGED <<media, usage_quota>>
               ELSE /\ media' = media \cup {NewMedia(req, user.id, n)}
                    /\ IF req.failAt = "quota_upsert"
                       THEN /\ Respond(req, user, 500, NoOut)
                            /\ UNCHANGED usage_quota
                       ELSE /\ usage_quota' = QuotaUpsert(usage_quota, user.id,
                                                          req.file.size)
                            /\ Respond(req, user, 201, NoOut)

\* POST /upload as the worker runs it: the handler yields at every await, so
\* several requests interleave between the steps below.
Idle == [pc |-> "idle", req |-> BaseReq, user |-> NoUser, n |-> 0, status |-> 0,
         read |-> NoOut]

Finished(p, status) == [inflight[p] EXCEPT !.pc = "done", !.status = status]

\* From the entry of the handler to the quota check (the quota row is read here).
UploadAdmit(p, req) ==
    LET user == ReqUser(req)
        reject(status) ==
            /\ Respond(req, user, status, NoOut)
            /\ inflight' = [inflight EXCEPT ![p] =
                               [Idle EXCEPT !.pc = "done", !.req = req, !.user = user,
                                            !.status = status]]
    IN
    /\ req.route = "POST /upload"
    /\ inflight[p].pc = "idle"
    /\ Middleware(req, user)
    /\ UNCHANGED <<now, ADMIN_ROLE, posts, nextPostId, comments, nextCommentId, cache,
                   media, usage_quota, outbound>>
    /\ IF user = NoUser THEN reject(401)
       ELSE IF ~req.file.present THEN reject(400)
       ELSE IF req.file.size > MAX_FILE_SIZE THEN reject(413)
       ELSE IF req.failAt = "quota_read" THEN reject(500)
       ELSE IF UsedBytes(user.id) + req.file.size > QuotaLimit THEN reject(429)
       ELSE /\ inflight' = [inflight EXCEPT ![p] =
                               [Idle EXCEPT !.pc = "fetch", !.req = req, !.user = user]]
            /\ UNCHANGED last

\* await fetch(DATA_WORKER_URL/upload) and the check of its response
UploadFetch(p) ==
    LET req == inflight[p].req
        user == inflight[p].user
        n == Len(outbound) + 1
    IN
    /\ inflight[p].pc = "fetch"
    /\ UNCHANGED <<now, ADMIN_ROLE, users, posts, nextPostId, comments, nextCommentId,
                   cache, media, usage_quota>>
    /\ outbound' = Append(outbound, Call("upload", user.id, StorageKey(user.id, n)))
    /\ IF req.upstream.throws
       THEN /\ Respond(req, user, 500, NoOut)
            /\ inflight' = [inflight EXCEPT ![p] = Finished(p, 500)]
       ELSE IF ~ResponseOk(req.upstream.status)
       THEN /\ Respond(req, user, asStatus(req.upstream.status), NoOut)
            /\ inflight' = [inflight EXCEPT ![p] =
                               Finished(p, asStatus(req.upstream.status))]
       ELSE /\ inflight' = [inflight EXCEPT ![p].pc = "media", ![p].n = n]
            /\ UNCHANGED last

\* await INSERT INTO media
UploadRecord(p) ==
    LET req == inflight[p].req
        user == inflight[p].user
    IN
    /\ inflight[p].pc = "media"
    /\ UNCHANGED <<now, ADMIN_ROLE, users, posts, nextPostId, comments, nextCommentId,
                   cache, usage_quota, outbound>>
    /\ IF req.failAt = "media_insert"
       THEN /\ Respond(req, user, 500, NoOut)
            /\ inflight' = [inflight EXCEPT ![p] = Finished(p, 500)]
            /\ UNCHANGED media
       ELSE /\ media' = media \cup {NewMedia(req, user.id, inflight[p].n)}
            /\ inflight' = [inflight EXCEPT ![p].pc = "quota"]
            /\ UNCHANGED last

\* await INSERT INTO usage_quota ... ON CONFLICT DO UPDATE, then the 201
UploadCount(p) ==
    LET req == inflight[p].req
        user == inflight[p].user
    IN
    /\ inflight[p].pc = "quota"
    /\ UNCHANGED <<now, ADMIN_ROLE, users, posts, nextPostId, comments, nextCommentId,
                   cache, media, outbound>>
    /\ IF req.failAt = "quota_upsert"
       THEN /\ Respond(req, user, 500, NoOut)
            /\ inflight' = [inflight EXCEPT ![p] = Finished(p, 500)]
            /\ UNCHANGED usage_quota
       ELSE /\ usage_quota' = QuotaUpsert(usage_quota, user.id, req.file.size)
            /\ Respond(req, user, 201, NoOut)
            /\ inflight' = [inflight EXCEPT ![p] = Finished(p, 201)]

\* GET /posts of the caching revisions as the worker runs it, one step per
\* await: the cache lookup, the two queries, the cache write with the response.
ListLookup(p, req) ==
    LET user == ReqUser(req)
        key == PageKeyOf(PageOf(req))
    IN
    /\ req.route = "GET /posts"
    /\ req.ver # "kv_sync"
    /\ inflight[p].pc = "idle"
    /\ Middleware(req, user)
    /\ UNCHANGED <<now, ADMIN_ROLE, posts, nextPostId, comments, nextCommentId,
                   media, usage_quota, outbound, cache>>
    /\ IF key \in DOMAIN cache
       THEN /\ Respond(req, user, 200, cache[key])
            /\ UNCHANGED inflight
       ELSE /\ inflight' = [inflight EXCEPT ![p] =
                               [Idle EXCEPT !.pc = "query", !.req = req, !.user = user]]
            /\ UNCHANGED last

ListQuery(p) ==
    LET req == inflight[p].req
        page == PageOf(req)
        limit == LimitOf(req)
    IN
    /\ inflight[p].pc = "query"
    /\ UNCHANGED <<now, ADMIN_ROLE, stores>>
    /\ users' = users
    /\ IF page = None \/ limit = None
       THEN /\ Respond(req, inflight[p].user, 500, NoOut)
            /\ inflight' = [inflight EXCEPT ![p] = Idle]
       ELSE /\ inflight' = [inflight EXCEPT ![p].pc = "store",
                                            ![p].read = ListResponse(page[1], limit[1],
                                                                     FALSE)]
            /\ UNCHANGED last

ListStore(p) ==
    LET req == inflight[p].req
        key == PageKeyOf(PageOf(req))
    IN
    /\ inflight[p].pc = "store"
    /\ UNCHANGED <<now, ADMIN_ROLE, users, posts, nextPostId, comments, nextCommentId,
                   media, usage_quota, outbound>>
    /\ cache' = [k \in DOMAIN cache \cup {key} |->
                   IF k = key THEN inflight[p].read ELSE cache[k]]
    /\ Respond(req, inflight[p].user, 200, inflight[p].read)
    /\ inflight' = [inflight EXCEPT ![p] = Idle]

\* POST /media/upload
HonoMediaUpload(req) ==
    LET user == ReqUser(req)
        n == Len(outbound) + 1
    IN
    /\ req.route = "POST /media/upload"
    /\ Len(outbound) < MaxOutbound
    /\ Middleware(req, user)
    /\ UNCHANGED <<now, ADMIN_ROLE, posts, nextPostId, comments, nextCommentId,
                   cache, media, usage_quota>>
    /\ IF user = NoUser
       THEN /\ Respond(req, user, 401, NoOut)
            /\ UNCHANGED outbound
       ELSE IF ~req.file.present
       THEN /\ Respond(req, user, 400, NoOut)
            /\ UNCHANGED outbound
       ELSE /\ outbound' = Append(outbound, Call("upload", user.id, StorageKey(user.id, n)))
            /\ IF req.upstream.throws
               THEN Respond(req, user, 500, NoOut)
               ELSE Respond(req, user, asStatus(req.upstream.status), NoOut)

\* decodeURIComponent for the escapes the model sends: %2F is '/'
RECURSIVE Decoded(_, _)
Decoded(str, i) ==
    IF i > Len(str) THEN ""
    ELSE IF i + 2 <= Len(str) /\ SubSeq(str, i, i + 2) = "%2F"
    THEN "/" \o Decoded(str, i + 3)
    ELSE SubSeq(str, i, i) \o Decoded(str, i + 1)

\* Faulty variant: the prefix compared without the separator.
OwnsKeyLoose(user, key) ==
    Len(key) >= Len(user.id) /\ SubSeq(key, 1, Len(user.id)) = user.id

\* key.startsWith(user.id + '/')
OwnsKey(user, key) ==
    Len(key) >= Len(user.id) + 1 /\ SubSeq(key, 1, Len(user.id) + 1) = user.id \o "/"

\* DELETE /media/:key
HonoMediaDelete(req) ==
    LET user == ReqUser(req)
        key == Decoded(req.key, 1)
    IN
    /\ req.route = "DELETE /media/:key"
    /\ Middleware(req, user)
    /\ UNCHANGED <<now, ADMIN_ROLE, posts, nextPostId, comments, nextCommentId,
                   cache, media, usage_quota>>
    /\ IF user = NoUser
       THEN /\ Respond(req, user, 401, NoOut)
            /\ UNCHANGED outbound
       ELSE IF ~OwnsKey(user, key)
       THEN /\ Respond(req, user, 403, NoOut)
            /\ UNCHANGED outbound
       ELSE /\ Len(outbound) < MaxOutbound
            /\ outbound' = Append(outbound, Call("delete", user.id, key))
            /\ IF req.upstream.throws
               THEN Respond(req, user, 500, NoOut)
               ELSE Respond(req, user, asStatus(req.upstream.status), NoOut)

\* Time passes.
Tick ==
    /\ now < MaxTime
    /\ now' = now + 1
    /\ UNCHANGED <<ADMIN_ROLE, users, stores, last>>


\* GET /health
HonoHealth(req) ==
    LET user == ReqUser(req) IN
    /\ req.route = "GET /health"
    /\ Middleware(req, user)
    /\ UNCHANGED <<now, ADMIN_ROLE, stores>>
    /\ Respond(req, user, 200, NoOut)

----------------------------------------------------------------------------
(* Initial state: empty tables, empty cache, no request handled yet *)

Empty == <<>>

Init ==
    /\ now = 1
    /\ ADMIN_ROLE \in {"admin", "owner"}
    /\ users = Empty
    /\ posts = Empty
    /\ nextPostId = 1
    /\ comments = Empty
    /\ nextCommentId = 1
    /\ media = {}
    /\ usage_quota = Empty
    /\ cache = Empty
    /\ outbound = Empty
    /\ last = NoLog
    /\ prev = NoLog
    /\ inflight = [p \in 1..MaxInflight |-> Idle]

With(reqs, route) == {[r EXCEPT !.route = route] : r \in reqs}

SessionCookies ==
    {NoCookie} \cup [name : {"session_id"}, value : SessionIds]
               \cup [name : {"session"}, value : {"sA", "sMiss"}]

SomeHeaders == {NoHeaders, [id |-> "u3", role |-> "admin"], [id |-> "u1", role |-> NULL]}

----------------------------------------------------------------------------
(* Session resolution: every revision's middleware in front of a read-only *)
(* route, with the store failing or not, as time passes.                   *)

SessionCallers(vers) ==
    Callers(vers, SessionCookies, {NoHeaders, [id |-> "u3", role |-> "admin"]},
            BOOLEAN, {FALSE})

NextSession ==
    \/ /\ \E req \in With(SessionCallers(HonoVersions), "GET /admin/posts") :
             HonoAdminList(req)
       /\ UNCHANGED <<prev, inflight>>
    \/ /\ \E req \in With(SessionCallers(HonoVersions), "GET /health") :
             HonoHealth(req)
       /\ UNCHANGED <<prev, inflight>>
    \/ /\ \E req \in With(SessionCallers({"astro", "astro_sync"}), "GET /about") :
             AstroPage(req)
       /\ UNCHANGED <<prev, inflight>>
    \/ Tick /\ UNCHANGED <<prev, inflight>>

SpecSession == Init /\ [][NextSession]_vars

----------------------------------------------------------------------------
(* Pairs of requests that carry the same cookie and differ in their        *)
(* client-supplied headers.                                                *)

HeaderCallers ==
    Callers({"kv", "header"},
            {NoCookie, [name |-> "session_id", value |-> "sA"],
             [name |-> "session", value |-> "sA"],
             [name |-> "session", value |-> "sMiss"]},
            SomeHeaders, {FALSE}, {FALSE})

NextHeaders ==
    \/ /\ \E req \in With(HeaderCallers, "GET /admin/posts") : HonoAdminList(req)
       /\ prev' = last /\ UNCHANGED inflight
    \/ /\ \E req \in With(HeaderCallers, "POST /posts/:id/publish") : HonoPublishPost(req)
       /\ prev' = last /\ UNCHANGED inflight

SpecHeaders == Init /\ [][NextHeaders]_vars

----------------------------------------------------------------------------
(* Posts: create, update, publish and delete through both applications     *)

Sid(v) == [name |-> "session_id", value |-> v]

\* Anonymous, the admin u1, the owner u2 and the plain user u3.
FourCallers == Callers({"kv"}, {NoCookie, Sid("sA"), Sid("sO"), Sid("sU")},
                       {NoHeaders}, {FALSE}, {FALSE})

\* locals.user as handed to the /api/ endpoints
FourLocals ==
    {[BaseReq EXCEPT !.ver = "astro", !.localsUser = u] :
        u \in {NoUser} \cup {SessionUser(SESSIONS_KV[x]) : x \in {"sA", "sO", "sU"}}}

Post(title, slug, content) ==
    [NoBody EXCEPT !.title = title, !.slug = slug, !.content = content]

CreateBodies == {Post("Hello", "hello", "content one"), Post("Hello", "world", "content one")}

CreateReqs ==
    {[r EXCEPT !.route = "POST /posts", !.body = b] : r \in FourCallers, b \in CreateBodies}

RetitleReqs ==
    {[r EXCEPT !.route = "PUT /posts/:id", !.id = i, !.body.title = "World"] :
        r \in FourCallers, i \in 1..MaxPosts}

PublishReqs ==
    {[r EXCEPT !.route = "POST /posts/:id/publish", !.id = i] :
        r \in FourCallers, i \in 1..MaxPosts}

AstroCreateReqs ==
    {[r EXCEPT !.route = "POST /api/posts", !.body.title = "Hello",
               !.body.content = "content one", !.body.status = st] :
        r \in FourLocals, st \in {ABSENT, "published"}}

AstroUpdateReqs ==
    {[r EXCEPT !.route = "PUT /api/posts/:slug", !.slug = sl, !.body = b] :
        r \in FourLocals, sl \in {"hello", "world"},
        b \in {[NoBody EXCEPT !.status = "published"], [NoBody EXCEPT !.title = "World"]}}

AstroDeleteReqs ==
    {[r EXCEPT !.route = "DELETE /api/posts/:slug", !.slug = sl] :
        r \in FourLocals, sl \in {"hello", "world"}}

NextPosts ==
    \/ (\E req \in CreateReqs : HonoCreatePost(req)) /\ UNCHANGED <<prev, inflight>>
    \/ (\E req \in RetitleReqs : HonoUpdatePost(req)) /\ UNCHANGED <<prev, inflight>>
    \/ (\E req \in PublishReqs : HonoPublishPost(req)) /\ UNCHANGED <<prev, inflight>>
    \/ (\E req \in AstroCreateReqs : AstroCreatePost(req)) /\ UNCHANGED <<prev, inflight>>
    \/ (\E req \in AstroUpdateReqs : AstroUpdatePost(req)) /\ UNCHANGED <<prev, inflight>>
    \/ (\E req \in AstroDeleteReqs : AstroDeletePost(req)) /\ UNCHANGED <<prev, inflight>>
    \/ Tick /\ UNCHANGED <<prev, inflight>>

SpecPosts == Init /\ [][NextPosts]_vars

----------------------------------------------------------------------------
(* Partial updates: PUT /posts/:id with every subset of the schema's fields *)

\* The empty partial, single fields, a pair and the full payload.
PartialBodies ==
    {NoBody,
     [NoBody EXCEPT !.title = "World"],
     [NoBody EXCEPT !.slug = "world"],
     [NoBody EXCEPT !.content = "content two", !.excerpt = "short"],
     [NoBody EXCEPT !.title = "World", !.slug = "world",
                    !.content = "content two", !.excerpt = "short"]}

UpdateCallers == Callers({"kv"}, {Sid("sA"), Sid("sO")}, {NoHeaders}, {FALSE}, {FALSE})

UpdateReqs ==
    {[r EXCEPT !.route = "PUT /posts/:id", !.id = i, !.body = b] :
        r \in UpdateCallers, i \in 1..MaxPosts, b \in PartialBodies}

SeedReqs ==
    {[r EXCEPT !.route = "POST /posts", !.body = Post("Hello", "hello", "content one")] :
        r \in UpdateCallers}

NextUpdate ==
    \/ (\E req \in SeedReqs : HonoCreatePost(req)) /\ UNCHANGED <<prev, inflight>>
    \/ (\E req \in UpdateReqs : HonoUpdatePost(req)) /\ UNCHANGED <<prev, inflight>>
    \/ Tick /\ UNCHANGED <<prev, inflight>>

SpecUpdate == Init /\ [][NextUpdate]_vars

----------------------------------------------------------------------------
(* The role-gated routes of the Hono worker, in front of non-empty stores  *)

Hello == Post("Hello", "hello", "content one")

Anonymous == Callers({"kv"}, {NoCookie}, {NoHeaders}, {FALSE}, {FALSE})
AdminOrNobody == Callers({"kv"}, {NoCookie, Sid("sA")}, {NoHeaders}, {FALSE}, {FALSE})

OneFile == [present |-> TRUE, size |-> 1, type |-> "image/png"]

GateReqs ==
    {[r EXCEPT !.route = "POST /posts", !.body = Hello] : r \in FourCallers}
    \cup {[r EXCEPT !.route = rt, !.id = 1, !.body.title = "World"] :
             r \in FourCallers, rt \in {"PUT /posts/:id"}}
    \cup {[r EXCEPT !.route = rt, !.id = 1] :
             r \in FourCallers,
             rt \in {"POST /posts/:id/publish", "GET /admin/posts",
                     "GET /admin/comments", "POST /admin/comments/:id/approve",
                     "DELETE /admin/comments/:id"}}
    \cup {[r EXCEPT !.route = rt, !.file = OneFile] :
             r \in AdminOrNobody, rt \in {"POST /upload", "POST /media/upload"}}
    \cup {[r EXCEPT !.route = "DELETE /media/:key", !.key = k] :
             r \in AdminOrNobody, k \in {"u1%2F1", "u2%2F1"}}

NextGate ==
    \/ (\E req \in GateReqs : HonoCreatePost(req)) /\ UNCHANGED <<prev, inflight>>
    \/ (\E req \in GateReqs : HonoUpdatePost(req)) /\ UNCHANGED <<prev, inflight>>
    \/ (\E req \in GateReqs : HonoPublishPost(req)) /\ UNCHANGED <<prev, inflight>>
    \/ (\E req \in GateReqs : HonoAdminList(req)) /\ UNCHANGED <<prev, inflight>>
    \/ (\E req \in GateReqs : HonoApproveComment(req)) /\ UNCHANGED <<prev, inflight>>
    \/ (\E req \in GateReqs : HonoDeleteComment(req)) /\ UNCHANGED <<prev, inflight>>
    \/ (\E req \in GateReqs : HonoUpload(req)) /\ UNCHANGED <<prev, inflight>>
    \/ (\E req \in GateReqs : HonoMediaUpload(req)) /\ UNCHANGED <<prev, inflight>>
    \/ (\E req \in GateReqs : HonoMediaDelete(req)) /\ UNCHANGED <<prev, inflight>>
    \/ (\E req \in With(Anonymous, "GET /posts") : HonoListPosts(req)) /\ UNCHANGED <<prev, inflight>>
    \/ /\ \E req \in With(Anonymous, "POST /walls/:id/comments") :
             HonoAddComment([req EXCEPT !.comment.content = "hi", !.wall = "w1"])
       /\ UNCHANGED <<prev, inflight>>

SpecGate == Init /\ [][NextGate]_vars

----------------------------------------------------------------------------
(* Message-wall comments and their moderation *)

CommentReqs ==
    {[r EXCEPT !.route = "POST /walls/:id/comments", !.wall = "w1",
               !.comment.content = c, !.dbFails = f] :
        r \in FourCallers, c \in {ABSENT, "hi"}, f \in BOOLEAN}

ModerationReqs ==
    {[r EXCEPT !.route = rt, !.id = i] :
        r \in FourCallers, i \in 1..MaxComments,
        rt \in {"GET /admin/comments", "POST /admin/comments/:id/approve",
                "DELETE /admin/comments/:id"}}

NextComments ==
    \/ (\E req \in CommentReqs : HonoAddComment(req)) /\ UNCHANGED <<prev, inflight>>
    \/ (\E req \in ModerationReqs : HonoAdminList(req)) /\ UNCHANGED <<prev, inflight>>
    \/ (\E req \in ModerationReqs : HonoApproveComment(req)) /\ UNCHANGED <<prev, inflight>>
    \/ (\E req \in ModerationReqs : HonoDeleteComment(req)) /\ UNCHANGED <<prev, inflight>>

SpecComments == Init /\ [][NextComments]_vars

----------------------------------------------------------------------------
(* The identity sync: the same request with the upsert failing and then   *)
(* succeeding.                                                            *)

SyncCallers(ver) ==
    Callers({ver}, {NoCookie, Sid("sA"), Sid("sU")}, {NoHeaders}, {FALSE}, BOOLEAN)

SyncReqs ==
    {[r EXCEPT !.route = "POST /posts", !.body = Hello] : r \in SyncCallers("kv_sync")}
    \cup {[r EXCEPT !.route = rt, !.id = 1] :
             r \in SyncCallers("kv_sync"),
             rt \in {"POST /posts/:id/publish", "GET /posts", "GET /admin/posts"}}
    \cup With(SyncCallers("astro_sync"), "GET /about")

NextSync ==
    \/ (\E req \in SyncReqs : HonoCreatePost(req)) /\ prev' = last /\ UNCHANGED inflight
    \/ (\E req \in SyncReqs : HonoPublishPost(req)) /\ prev' = last /\ UNCHANGED inflight
    \/ (\E req \in SyncReqs : HonoListPosts(req)) /\ prev' = last /\ UNCHANGED inflight
    \/ (\E req \in SyncReqs : HonoAdminList(req)) /\ prev' = last /\ UNCHANGED inflight
    \/ (\E req \in SyncReqs : AstroPage(req)) /\ prev' = last /\ UNCHANGED inflight

SpecSync == Init /\ [][NextSync]_vars

----------------------------------------------------------------------------
(* Public reads of posts and walls, next to moderation and cache expiry    *)

OwnerCaller == Callers({"kv"}, {Sid("sO")}, {NoHeaders}, {FALSE}, {FALSE})
Moderators == Callers({"kv"}, {Sid("sA"), Sid("sO")}, {NoHeaders}, {FALSE}, {FALSE})
Readers == Callers({"kv", "kv_sync"}, {NoCookie}, {NoHeaders}, {FALSE}, {FALSE})

ModerateReqs ==
    {[r EXCEPT !.route = rt, !.id = i] :
        r \in Moderators, i \in 1..MaxComments,
        rt \in {"POST /admin/comments/:id/approve", "DELETE /admin/comments/:id"}}

GetPostReqs ==
    {[r EXCEPT !.route = "GET /posts/:slug", !.slug = "hello", !.format = f] :
        r \in Readers, f \in {"json", "html"}}

GetWallReqs ==
    {[r EXCEPT !.route = "GET /walls/:id", !.wall = w] :
        r \in Anonymous, w \in {"w1", "w2"}}

NextRead ==
    \/ /\ \E req \in With(OwnerCaller, "POST /posts") :
             HonoCreatePost([req EXCEPT !.body = Hello])
       /\ UNCHANGED <<prev, inflight>>
    \/ /\ \E req \in With(OwnerCaller, "POST /posts/:id/publish") :
             HonoPublishPost([req EXCEPT !.id = 1])
       /\ UNCHANGED <<prev, inflight>>
    \/ (\E st \in {"approved", "pending", "spam"} : PostCommentInserted(1, st))
       /\ UNCHANGED <<prev, inflight>>
    \/ /\ \E req \in With(Anonymous, "POST /walls/:id/comments") :
             HonoAddComment([req EXCEPT !.comment.content = "hi", !.wall = "w1"])
       /\ UNCHANGED <<prev, inflight>>
    \/ (\E req \in ModerateReqs : HonoApproveComment(req)) /\ UNCHANGED <<prev, inflight>>
    \/ (\E req \in ModerateReqs : HonoDeleteComment(req)) /\ UNCHANGED <<prev, inflight>>
    \/ (\E req \in GetPostReqs : HonoGetPost(req)) /\ UNCHANGED <<prev, inflight>>
    \/ (\E req \in GetWallReqs : HonoGetWall(req)) /\ UNCHANGED <<prev, inflight>>
    \/ CacheExpire /\ UNCHANGED <<prev, inflight>>
    \/ Tick /\ UNCHANGED <<prev, inflight>>

SpecRead == Init /\ [][NextRead]_vars

----------------------------------------------------------------------------
(* The paginated listing, with the query parameters as the client sends them *)

AdminCaller == Callers({"kv"}, {Sid("sA")}, {NoHeaders}, {FALSE}, {FALSE})

PageParams == {ABSENT, "2", "0", "abc"}
LimitParams == {ABSENT, "1", "0", "-1", "2x"}

ListReqs ==
    {[r EXCEPT !.route = "GET /posts", !.page = pg, !.limit = lm] :
        r \in Readers, pg \in PageParams, lm \in LimitParams}

NextList ==
    \/ /\ \E req \in With(AdminCaller, "POST /posts") :
             \E b \in {Hello, Post("World", "world", "content two")} :
                HonoCreatePost([req EXCEPT !.body = b])
       /\ UNCHANGED <<prev, inflight>>
    \/ /\ \E req \in With(AdminCaller, "POST /posts/:id/publish") :
             \E i \in 1..MaxPosts : HonoPublishPost([req EXCEPT !.id = i])
       /\ UNCHANGED <<prev, inflight>>
    \/ (\E req \in ListReqs : HonoListPosts(req)) /\ UNCHANGED <<prev, inflight>>

SpecList == Init /\ [][NextList]_vars

----------------------------------------------------------------------------
(* A post read by its slug while the post is renamed or deleted             *)

OwnerLocals == {[BaseReq EXCEPT !.ver = "astro",
                                !.localsUser = SessionUser(SESSIONS_KV["sO"])]}

SlugReqs ==
    {[r EXCEPT !.route = "GET /posts/:slug", !.slug = sl, !.format = f] :
        r \in Readers, sl \in {"hello", "world"}, f \in {"json", "html"}}

NextSlug ==
    \/ /\ \E req \in With(OwnerCaller, "POST /posts") :
             HonoCreatePost([req EXCEPT !.body = Hello])
       /\ UNCHANGED <<prev, inflight>>
    \/ /\ \E req \in With(OwnerCaller, "POST /posts/:id/publish") :
             HonoPublishPost([req EXCEPT !.id = 1])
       /\ UNCHANGED <<prev, inflight>>
    \/ /\ \E req \in With(OwnerCaller, "PUT /posts/:id") :
             HonoUpdatePost([req EXCEPT !.id = 1, !.body.slug = "world"])
       /\ UNCHANGED <<prev, inflight>>
    \/ /\ \E req \in With(OwnerLocals, "DELETE /api/posts/:slug") :
             \E sl \in {"hello", "world"} : AstroDeletePost([req EXCEPT !.slug = sl])
       /\ UNCHANGED <<prev, inflight>>
    \/ (\E req \in SlugReqs : HonoGetPost(req)) /\ UNCHANGED <<prev, inflight>>
    \/ CacheExpire /\ UNCHANGED <<prev, inflight>>
    \/ Tick /\ UNCHANGED <<prev, inflight>>

SpecSlug == Init /\ [][NextSlug]_vars

----------------------------------------------------------------------------
(* Slugs: given by the client of POST /posts, derived by POST /api/posts    *)

GivenSlugReqs ==
    {[r EXCEPT !.route = "POST /posts", !.body = Post("Hello", sl, "content one")] :
        r \in OwnerCaller, sl \in {"hello", "hello-2", "hello-world"}}

DerivedSlugReqs ==
    {[r EXCEPT !.route = "POST /api/posts",
               !.body = [NoBody EXCEPT !.title = "Hello", !.content = "content one"]] :
        r \in OwnerLocals}

DeleteSlugReqs ==
    {[r EXCEPT !.route = "DELETE /api/posts/:slug", !.slug = sl] :
        r \in OwnerLocals, sl \in {"hello", "hello-2", "hello-world"}}

NextSlugs ==
    \/ (\E req \in GivenSlugReqs : HonoCreatePost(req)) /\ UNCHANGED <<prev, inflight>>
    \/ (\E req \in DerivedSlugReqs : AstroCreatePost(req)) /\ UNCHANGED <<prev, inflight>>
    \/ (\E req \in DeleteSlugReqs : AstroDeletePost(req)) /\ UNCHANGED <<prev, inflight>>
    \/ Tick /\ UNCHANGED <<prev, inflight>>

SpecSlugs == Init /\ [][NextSlugs]_vars

----------------------------------------------------------------------------
(* The writing routes while the database fails or not                      *)

FailingOrNot(reqs) == {[r EXCEPT !.dbFails = f] : r \in reqs, f \in BOOLEAN}

NextFail ==
    \/ /\ \E req \in FailingOrNot(With(OwnerCaller, "POST /posts")) :
             HonoCreatePost([req EXCEPT !.body = Hello])
       /\ UNCHANGED <<prev, inflight>>
    \/ /\ \E req \in FailingOrNot(With(OwnerCaller, "PUT /posts/:id")) :
             HonoUpdatePost([req EXCEPT !.id = 1, !.body.title = "World"])
       /\ UNCHANGED <<prev, inflight>>
    \/ /\ \E req \in FailingOrNot(With(OwnerCaller, "POST /posts/:id/publish")) :
             HonoPublishPost([req EXCEPT !.id = 1])
       /\ UNCHANGED <<prev, inflight>>
    \/ /\ \E req \in FailingOrNot(With(OwnerLocals, "POST /api/posts")) :
             AstroCreatePost([req EXCEPT !.body.title = "World",
                                         !.body.content = "content two"])
       /\ UNCHANGED <<prev, inflight>>
    \/ /\ \E req \in FailingOrNot(With(OwnerLocals, "PUT /api/posts/:slug")) :
             AstroUpdatePost([req EXCEPT !.slug = "hello", !.body.title = "World"])
       /\ UNCHANGED <<prev, inflight>>
    \/ /\ \E req \in FailingOrNot(With(OwnerLocals, "DELETE /api/posts/:slug")) :
             AstroDeletePost([req EXCEPT !.slug = "hello"])
       /\ UNCHANGED <<prev, inflight>>
    \/ Tick /\ UNCHANGED <<prev, inflight>>

SpecFail == Init /\ [][NextFail]_vars

----------------------------------------------------------------------------
(* Deleting media by key                                                    *)

MediaKeys == {"u1%2F1", "u2%2F1", "u10%2F1", "u1", "x%2Fu1%2F1"}

MediaDeleteReqs ==
    {[r EXCEPT !.route = "DELETE /media/:key", !.key = k, !.upstream = u] :
        r \in Callers({"kv", "kv_sync"}, {NoCookie, Sid("sA"), Sid("sO")}, {NoHeaders},
                      {FALSE}, {FALSE}),
        k \in MediaKeys,
        u \in {[throws |-> TRUE, status |-> 200], [throws |-> FALSE, status |-> 200],
               [throws |-> FALSE, status |-> 404]}}

NextMedia ==
    \/ (\E req \in MediaDeleteReqs : HonoMediaDelete(req)) /\ UNCHANGED <<prev, inflight>>
    \/ Tick /\ UNCHANGED <<prev, inflight>>

SpecMedia == Init /\ [][NextMedia]_vars

----------------------------------------------------------------------------
(* Uploads: file gates, quota gate, storage call, bookkeeping              *)

UploadFiles ==
    {NoFile} \cup {[present |-> TRUE, size |-> sz, type |-> "image/png"] :
                     sz \in {1, MAX_FILE_SIZE - 2, MAX_FILE_SIZE, MAX_FILE_SIZE + 1}}

Upstreams ==
    {[throws |-> TRUE, status |-> 200]}
    \cup {[throws |-> FALSE, status |-> st] : st \in {101, 200, 413, 503}}

UploadReqs ==
    {[r EXCEPT !.route = "POST /upload", !.file = f, !.upstream = u, !.failAt = x] :
        r \in AdminOrNobody, f \in UploadFiles, u \in Upstreams,
        x \in {"none", "quota_read", "media_insert", "quota_upsert"}}

NextUpload ==
    \/ (\E req \in UploadReqs : HonoUpload(req)) /\ UNCHANGED <<prev, inflight>>

SpecUpload == Init /\ [][NextUpload]_vars

----------------------------------------------------------------------------
(* Concurrent uploads: the handler's awaits interleave                      *)

Uploaders == Callers({"kv"}, {NoCookie, Sid("sA"), Sid("sO")}, {NoHeaders}, {FALSE},
                     {FALSE})

ConcurrentFiles ==
    {[present |-> TRUE, size |-> sz, type |-> "image/png"] : sz \in {1, MAX_FILE_SIZE}}

ConcurrentReqs ==
    LET sound == {[r EXCEPT !.route = "POST /upload", !.file = f] :
                    r \in Uploaders, f \in ConcurrentFiles}
    IN sound
       \cup {[r EXCEPT !.upstream = [throws |-> FALSE, status |-> 503]] :
               r \in {q \in sound : q.cookie = Sid("sA") /\ q.file.size = 1}}
       \cup {[r EXCEPT !.failAt = "quota_upsert"] :
               r \in {q \in sound : q.cookie = Sid("sA") /\ q.file.size = 1}}

NextConcurrent ==
    \/ (\E p \in DOMAIN inflight : \E req \in ConcurrentReqs : UploadAdmit(p, req))
          /\ UNCHANGED prev
    \/ (\E p \in DOMAIN inflight : UploadFetch(p)) /\ UNCHANGED prev
    \/ (\E p \in DOMAIN inflight : UploadRecord(p)) /\ UNCHANGED prev
    \/ (\E p \in DOMAIN inflight : UploadCount(p)) /\ UNCHANGED prev

SpecConcurrent == Init /\ [][NextConcurrent]_vars

----------------------------------------------------------------------------
(* Listings that run while a post is published                              *)

NextRace ==
    \/ /\ \E req \in With(OwnerCaller, "POST /posts") :
             HonoCreatePost([req EXCEPT !.body = Hello])
       /\ UNCHANGED <<prev, inflight>>
    \/ /\ \E req \in With(OwnerCaller, "POST /posts/:id/publish") :
             HonoPublishPost([req EXCEPT !.id = 1])
       /\ UNCHANGED <<prev, inflight>>
    \/ /\ \E p \in DOMAIN inflight : \E req \in With(Anonymous, "GET /posts") :
             ListLookup(p, req)
       /\ UNCHANGED prev
    \/ (\E p \in DOMAIN inflight : ListQuery(p)) /\ UNCHANGED prev
    \/ (\E p \in DOMAIN inflight : ListStore(p)) /\ UNCHANGED prev
    \/ Tick /\ UNCHANGED <<prev, inflight>>

SpecRace == Init /\ [][NextRace]_vars

----------------------------------------------------------------------------
(* Paths below /posts/ through the router of each revision                  *)

PathCallers == Callers(HonoVersions, {NoCookie, Sid("sA"), Sid("sU")}, {NoHeaders},
                       {FALSE}, {FALSE})

NextRoute ==
    \/ /\ \E req \in With(OwnerCaller, "POST /posts") :
             \E b \in {Hello, Post("New", "new", "content two")} :
                HonoCreatePost([req EXCEPT !.body = b])
       /\ UNCHANGED <<prev, inflight>>
    \/ /\ \E req \in With(OwnerCaller, "POST /posts/:id/publish") :
             \E i \in 1..MaxPosts : HonoPublishPost([req EXCEPT !.id = i])
       /\ UNCHANGED <<prev, inflight>>
    \/ /\ \E req \in PathCallers : \E seg \in {"new", "hello"} :
             HonoGetPostsPath(req, seg)
       /\ UNCHANGED <<prev, inflight>>
    \/ Tick /\ UNCHANGED <<prev, inflight>>

SpecRoute == Init /\ [][NextRoute]_vars

----------------------------------------------------------------------------
(* The /api/posts write endpoints behind the Astro middleware               *)

\* Requests with a session cookie; locals.user is what the middleware left
\* (nothing) or what something in front of the endpoint put there.
ApiCallers ==
    {[BaseReq EXCEPT !.ver = v, !.cookie = c, !.localsUser = u] :
        v \in {"astro", "astro_sync"},
        c \in {NoCookie, Sid("sA"), Sid("sO"), Sid("sE"), Sid("sU")},
        u \in {NoUser, SessionUser(SESSIONS_KV["sO"])}}

NextApi ==
    \/ /\ \E req \in With(ApiCallers, "POST /api/posts") :
             AstroCreatePost([req EXCEPT !.body.title = "Hello",
                                         !.body.content = "content one"])
       /\ UNCHANGED <<prev, inflight>>
    \/ /\ \E req \in With(ApiCallers, "PUT /api/posts/:slug") :
             AstroUpdatePost([req EXCEPT !.slug = "hello", !.body.title = "World"])
       /\ UNCHANGED <<prev, inflight>>
    \/ /\ \E req \in With(ApiCallers, "DELETE /api/posts/:slug") :
             AstroDeletePost([req EXCEPT !.slug = "hello"])
       /\ UNCHANGED <<prev, inflight>>
    \/ Tick /\ UNCHANGED <<prev, inflight>>

SpecApi == Init /\ [][NextApi]_vars

----------------------------------------------------------------------------
(* The status of a post under every endpoint that writes it                 *)

StatusValues == {ABSENT, "draft", "published", "archived"}

NextStatus ==
    \/ /\ \E req \in With(OwnerCaller, "POST /posts") :
             HonoCreatePost([req EXCEPT !.body = Hello])
       /\ UNCHANGED <<prev, inflight>>
    \/ /\ \E req \in With(OwnerCaller, "PUT /posts/:id") :
             HonoUpdatePost([req EXCEPT !.id = 1, !.body.title = "World"])
       /\ UNCHANGED <<prev, inflight>>
    \/ /\ \E req \in With(OwnerCaller, "POST /posts/:id/publish") :
             HonoPublishPost([req EXCEPT !.id = 1])
       /\ UNCHANGED <<prev, inflight>>
    \/ /\ \E req \in With(OwnerLocals, "POST /api/posts") : \E st \in StatusValues :
             AstroCreatePost([req EXCEPT !.body.title = "World",
                                         !.body.content = "content two",
                                         !.body.status = st])
       /\ UNCHANGED <<prev, inflight>>
    \/ /\ \E req \in With(OwnerLocals, "PUT /api/posts/:slug") : \E st \in StatusValues :
             AstroUpdatePost([req EXCEPT !.slug = "hello", !.body.status = st])
       /\ UNCHANGED <<prev, inflight>>
    \/ Tick /\ UNCHANGED <<prev, inflight>>

SpecStatus == Init /\ [][NextStatus]_vars

----------------------------------------------------------------------------
(* Comments and replies on a wall                                           *)

ReplyReqs ==
    {[r EXCEPT !.route = "POST /walls/:id/comments", !.wall = "w1",
               !.comment.content = "hi", !.comment.parent_comment_id = par] :
        r \in AdminOrNobody, par \in {ABSENT, "1"}}

NextReplies ==
    \/ (\E req \in ReplyReqs : HonoAddComment(req)) /\ UNCHANGED <<prev, inflight>>
    \/ (\E req \in GetWallReqs : HonoGetWall(req)) /\ UNCHANGED <<prev, inflight>>
    \/ (\E req \in ModerateReqs : HonoApproveComment(req)) /\ UNCHANGED <<prev, inflight>>
    \/ Tick /\ UNCHANGED <<prev, inflight>>

SpecReplies == Init /\ [][NextReplies]_vars

----------------------------------------------------------------------------
(* Claims about session resolution *)

Handled(log) == log.req.route # "none"

\* The store's record for a request's cookie, read at the time of the request.
HasRecord(log) ==
    /\ log.req.cookie.name \in {"session_id", "session"}
    /\ log.req.cookie.value \in DOMAIN SESSIONS_KV
    /\ SESSIONS_KV[log.req.cookie.value].ok

RecordOf(log) == SESSIONS_KV[log.req.cookie.value]

\* expires is unset or later than the time of the request
Unexpired(log) ==
    \/ RecordOf(log).expires = None
    \/ RecordOf(log).expires[1] > log.t * 1000

\* C3: the principal is derived only from the session-store record the
\* cookie addresses: two requests that differ only in their X-User-ID /
\* X-User-Role headers resolve to the same principal, and a request without
\* a valid session record stays anonymous.
C3_PrincipalOnlyFromSession ==
    /\ (/\ Handled(prev) /\ Handled(last)
        /\ prev.t = last.t
        /\ prev.req = [last.req EXCEPT !.hdr = prev.req.hdr])
       => prev.user = last.user
    /\ (Handled(last) /\ ~(HasRecord(last) /\ Unexpired(last)))
       => last.user = NoUser

KvRevisions == {"kv_sync", "kv", "astro", "astro_sync"}

\* Resolution ran: a KV revision, on a path its middleware does not skip.
Resolved(log) ==
    /\ Handled(log)
    /\ log.req.ver \in KvRevisions
    /\ log.req.route \in {"GET /admin/posts", "GET /about"}

\* C4: resolution yields the session's principal exactly when the store
\* holds a record for the cookie's session id that parses and whose expires
\* is unset or later than the current time; in every other case the request
\* reaches its handler as anonymous.
C4_ResolvesExactlyValidSessions ==
    Resolved(last) =>
        IF /\ last.req.cookie.name = "session_id"
           /\ ~last.req.kvFails
           /\ HasRecord(last)
           /\ Unexpired(last)
        THEN last.user = SessionUser(RecordOf(last))
        ELSE last.user = NoUser

----------------------------------------------------------------------------
(* Claims about the post lifecycle *)

\* A privileged role: admin or owner.
Privileged(user) == user # NoUser /\ user.role \in {"admin", "owner"}

\* The policy admin-or-owner of the Hono routes, admin being the configured role.
Permitted(user) == user # NoUser /\ user.role \in {ADMIN_ROLE, "owner"}

CreateRoutes == {"POST /posts", "POST /api/posts"}

\* The last request was accepted by a create endpoint.
Created(log) == log.req.route \in CreateRoutes /\ log.status = 201

\* C6: for every valid creation payload accepted by a create endpoint (Hono
\* POST /posts, Astro POST /api/posts) the resulting post has status draft
\* and published_at null.
C6_CreatedAsDraft ==
    Created(last) =>
        /\ posts[nextPostId - 1].status = "draft"
        /\ posts[nextPostId - 1].published_at = None

\* C7: publishing is idempotent with respect to published_at: once
\* POST /posts/:id/publish has published a post, a later publish of the same
\* post leaves published_at equal to the value the first publish set.
C7_RepublishKeepsPublishedAt ==
    [][\A id \in DOMAIN posts :
          (/\ last.req.route = "POST /posts/:id/publish"
           /\ last.req.id = id /\ last.status = 200
           /\ posts[id].status = "published"
           /\ last'.req.route = "POST /posts/:id/publish"
           /\ last'.req.id = id
           /\ id \in DOMAIN posts')
          => posts'[id].published_at = posts[id].published_at]_vars

\* The row a partial update is to produce: the supplied fields and updated_at.
ExpectedUpdate(row, body) ==
    [f \in DOMAIN row |->
        IF f \in Supplied(body) THEN body[f]
        ELSE IF f = "updated_at" THEN NowSec
        ELSE row[f]]

\* C8: PUT /posts/:id by a permitted principal with any valid partial payload
\* (the empty one included) returns 200, changes exactly the supplied fields
\* plus updated_at on the post matching id and author, and leaves every other
\* field and every other post unchanged; when no row matches, nothing changes
\* and the response is still 200.
C8_PartialUpdateFrame ==
    [][(/\ now' = now
        /\ last'.req.route = "PUT /posts/:id"
        /\ Permitted(last'.user)
        /\ PostPartialOk(last'.req.body)
        /\ ~last'.req.dbFails
        /\ ~(/\ last'.req.body.slug # ABSENT
             /\ SlugTaken(last'.req.body.slug, {last'.req.id})))
       => /\ last'.status = 200
          /\ DOMAIN posts' = DOMAIN posts
          /\ \A id \in DOMAIN posts :
                posts'[id] = IF /\ id = last'.req.id
                                /\ posts[id].author_id = last'.user.id
                             THEN ExpectedUpdate(posts[id], last'.req.body)
                             ELSE posts[id]]_vars

\* A post was changed or deleted by the step.
Touched(id) == id \notin DOMAIN posts' \/ posts'[id] # posts[id]

HonoMutations == {"PUT /posts/:id", "POST /posts/:id/publish"}

\* C9 as stated: a post is modified or deleted only by a request whose
\* principal holds a privileged role and is the post's author, on every
\* mutation endpoint.
C9_OnlyPrivilegedAuthorMutates ==
    [][\A id \in DOMAIN posts :
          Touched(id) => /\ Privileged(last'.user)
                         /\ last'.user.id = posts[id].author_id]_vars

\* C9, amended: a post is modified or deleted only by a request whose
\* principal holds a privileged role; through Hono PUT /posts/:id and
\* POST /posts/:id/publish only by the post's author as well; through Astro
\* DELETE by slug only by an owner. Astro PUT and DELETE by slug are not
\* author-scoped.
C9_OnlyPrivilegedMutates ==
    [][\A id \in DOMAIN posts :
          Touched(id) =>
             /\ Privileged(last'.user)
             /\ last'.req.route \in HonoMutations
                   => last'.user.id = posts[id].author_id
             /\ last'.req.route = "DELETE /api/posts/:slug"
                   => last'.user.role = "owner"]_vars

\* A privileged principal that is not the author has updated a post by slug.
C9_UpdatedBySlugByNonAuthor ==
    /\ last.req.route = "PUT /api/posts/:slug"
    /\ last.status = 200
    /\ \E id \in DOMAIN posts :
          /\ posts[id].slug = last.req.slug
          /\ posts[id].title = "World"
          /\ posts[id].author_id # last.user.id

HonoPostRoutes == {"POST /posts", "PUT /posts/:id", "POST /posts/:id/publish"}
AstroPostRoutes == {"POST /api/posts", "PUT /api/posts/:slug", "DELETE /api/posts/:slug"}
AuthRoutes == HonoPostRoutes \cup AstroPostRoutes

\* The principal holds the role the route requires.
HoldsRole(log) ==
    IF log.req.route \in HonoPostRoutes THEN Permitted(log.user)
    ELSE IF log.req.route = "DELETE /api/posts/:slug" THEN log.user.role = "owner"
    ELSE Privileged(log.user)

\* C2: on a route that requires authentication a null principal is answered
\* 401, and a principal that lacks the required role is answered 403.
C2_Status401And403 ==
    last.req.route \in AuthRoutes =>
        /\ last.user = NoUser => last.status = 401
        /\ (last.user # NoUser /\ ~HoldsRole(last)) => last.status = 403

----------------------------------------------------------------------------
(* Claims about the authorization gate *)

PostGated == {"POST /posts", "PUT /posts/:id", "POST /posts/:id/publish"}
AdminGated == {"GET /admin/posts", "GET /admin/comments",
               "POST /admin/comments/:id/approve", "DELETE /admin/comments/:id"}
UploadGated == {"POST /upload", "POST /media/upload"}
GatedRoutes == PostGated \cup AdminGated \cup UploadGated \cup {"DELETE /media/:key"}

\* The principal is null or fails the route's policy: admin-or-owner on the
\* post routes, admin-only on the admin routes, authenticated on the upload
\* routes, authenticated and key-prefix-owned on DELETE /media/:key.
FailsPolicy(log) ==
    \/ log.user = NoUser
    \/ log.req.route \in PostGated /\ log.user.role \notin {ADMIN_ROLE, "owner"}
    \/ log.req.route \in AdminGated /\ log.user.role # ADMIN_ROLE
    \/ /\ log.req.route = "DELETE /media/:key"
       /\ ~OwnsKey(log.user, Decoded(log.req.key, 1))

----------------------------------------------------------------------------
(* Claims about the identity sync *)

\* The last two requests are one request, first with the upsert failing and
\* then with it succeeding.
SyncPair ==
    /\ Handled(prev) /\ Handled(last)
    /\ prev.req.syncFails
    /\ last.req = [prev.req EXCEPT !.syncFails = FALSE]
    /\ prev.t = last.t

\* The request changed nothing, so that its twin met the same state.
StatePreserving(log) ==
    \/ log.req.route \in {"GET /posts", "GET /admin/posts", "GET /about"}
    \/ log.status = 403

----------------------------------------------------------------------------
(* Claims about comments *)

\* The last request stored a comment.
Commented(log) == log.req.route = "POST /walls/:id/comments" /\ log.status = 201

\* C10: a comment submitted through POST /walls/:id/comments is stored with
\* status approved if and only if the submitter's principal is non-null and
\* its role equals ADMIN_ROLE; every other submitter produces status pending.
C10_ApprovedIffAdminRole ==
    Commented(last) =>
        LET stored == comments[last.out[1].id] IN
        IF last.user # NoUser /\ last.user.role = ADMIN_ROLE
        THEN stored.status = "approved"
        ELSE stored.status = "pending"

\* An owner who is not the admin role has commented, and an admin's comment
\* is in the table as approved.
C10_OwnerPendingAdminApproved ==
    /\ Commented(last)
    /\ last.user.role = "owner" /\ ADMIN_ROLE = "admin"
    /\ comments[last.out[1].id].status = "pending"
    /\ \E c \in DOMAIN comments :
          comments[c].author_id = "u1" /\ comments[c].status = "approved"

----------------------------------------------------------------------------
(* Claims about public reads and moderation *)

ReadRoutes == {"GET /posts/:slug", "GET /walls/:id"}

\* The comments a response carries, in the order it carries them.
Returned(log) == log.out[1].comments

\* C11: every comment returned by GET /posts/:slug or GET /walls/:id has
\* status approved in the store at the time the response is produced, also
\* when the response comes from the cache, and the comments are ordered
\* newest first.
C11_ReturnedCommentsApproved ==
    [][(now' = now /\ last'.req.route \in ReadRoutes /\ last'.status = 200)
       => /\ \A i \in 1..Len(Returned(last')) :
                /\ Returned(last')[i].id \in DOMAIN comments'
                /\ comments'[Returned(last')[i].id].status = "approved"
          /\ \A i, j \in 1..Len(Returned(last')) :
                i < j => Returned(last')[i].created_at >= Returned(last')[j].created_at]_vars

\* C12: POST /admin/comments/:id/approve moves a pending comment to approved,
\* changes nothing when the id is missing or the comment is already approved,
\* and never changes a comment in a state other than pending.
C12_ApproveOnlyPending ==
    [][(now' = now /\ last'.req.route = "POST /admin/comments/:id/approve")
       => /\ DOMAIN comments' = DOMAIN comments
          /\ \A c \in DOMAIN comments :
                comments'[c] =
                   IF /\ last'.status = 200 /\ c = last'.req.id
                      /\ comments[c].status = "pending"
                   THEN [comments[c] EXCEPT !.status = "approved"]
                   ELSE comments[c]]_vars

----------------------------------------------------------------------------
(* Claims about uploads *)

\* The step is a POST /upload by an authenticated principal.
Uploading(log) == log.req.route = "POST /upload" /\ log.user # NoUser

\* Bytes the quota row of the uploader holds before the step.
UsedBefore(log) ==
    IF log.user.id \in DOMAIN usage_quota
    THEN usage_quota[log.user.id].total_bytes_used ELSE 0

\* The gate that stops the upload: 400, 413, 429, or 0 when all three pass.
Gate(log) ==
    IF ~log.req.file.present THEN 400
    ELSE IF log.req.file.size > MAX_FILE_SIZE THEN 413
    ELSE IF UsedBefore(log) + log.req.file.size > FREE_TIER_LIMIT_GB * BytesPerGb
    THEN 429
    ELSE 0

Written == <<media, usage_quota>>

\* C13: POST /upload evaluates its gates in a fixed order: missing file 400,
\* file.size > MAX_FILE_SIZE 413, used + file.size > limit 429; the storage
\* service is called only after all three pass, and a request rejected with
\* 400, 413 or 429 makes no storage call and writes neither media nor
\* usage_quota.
C13_GatesInOrder ==
    [][(Uploading(last') /\ last'.req.failAt # "quota_read")
       => /\ Gate(last') \in {400, 413} => last'.status = Gate(last')
          /\ Gate(last') = 429 => last'.status = 429
          /\ Gate(last') # 0 => UNCHANGED <<Written, outbound>>
          /\ outbound' # outbound => Gate(last') = 0]_vars

\* An upload that fits the file limit was turned down with 429 because the
\* account would overflow, and the storage service saw only the earlier one.
C13_QuotaGateHit ==
    /\ Uploading(last)
    /\ last.status = 429
    /\ last.req.file.size = MAX_FILE_SIZE
    /\ Len(outbound) = 1
    /\ usage_quota[last.user.id].total_bytes_used = MAX_FILE_SIZE

\* The storage service was called and answered with a failure status.
UpstreamFailed(log) ==
    /\ Uploading(log)
    /\ ~log.req.upstream.throws
    /\ ~(log.req.upstream.status >= 200 /\ log.req.upstream.status <= 299)

----------------------------------------------------------------------------
(* Claims about concurrent uploads *)

\* The uploads of a user that were answered 201.
Succeeded(userId) ==
    {p \in DOMAIN inflight :
        /\ inflight[p].status = 201
        /\ inflight[p].user # NoUser
        /\ inflight[p].user.id = userId}

RECURSIVE SizeSum(_)
SizeSum(ps) ==
    IF ps = {} THEN 0
    ELSE LET p == CHOOSE q \in ps : TRUE
         IN inflight[p].req.file.size + SizeSum(ps \ {p})

UploaderIds == {"u1", "u2"} \cup DOMAIN usage_quota

\* C14: whatever the interleaving of the uploads' steps, a user's quota row
\* counts exactly the uploads of that user that were answered 201:
\* total_bytes_used is the sum of their sizes and total_files their number,
\* the first one creating the row and the later ones incrementing it.
C14_QuotaCountsEverySuccess ==
    \A u \in UploaderIds :
        IF Succeeded(u) = {} THEN u \notin DOMAIN usage_quota
        ELSE /\ u \in DOMAIN usage_quota
             /\ usage_quota[u].total_bytes_used = SizeSum(Succeeded(u))
             /\ usage_quota[u].total_files = Cardinality(Succeeded(u))

\* Two uploads of one user succeeded that both passed the quota check before
\* either was counted: together they exceed what one check would admit.
C14_BothCounted ==
    \E u \in DOMAIN usage_quota :
        /\ Cardinality(Succeeded(u)) = 2
        /\ \A p \in Succeeded(u) : inflight[p].req.file.size = MAX_FILE_SIZE
        /\ usage_quota[u].total_files = 2
        /\ usage_quota[u].total_bytes_used = 2 * MAX_FILE_SIZE

----------------------------------------------------------------------------
(* Claims about the listing cache *)

PostWrites == {"POST /posts", "PUT /posts/:id", "POST /posts/:id/publish"}

\* A request to one of the three writing routes that was answered with
\* success and changed the posts table.
WrotePosts(routes) ==
    /\ now' = now
    /\ last'.req.route \in routes
    /\ last'.status \in {200, 201}
    /\ posts' # posts

\* C16: every successful write to posts through the Hono app (create,
\* update, publish) leaves no posts:page:1 entry in the cache when the
\* response is returned.
C16_WriteDropsFirstPage ==
    [][WrotePosts(PostWrites) => PageKey(1) \notin DOMAIN cache']_vars

\* The same for create and publish alone.
C16_CreateAndPublishDropFirstPage ==
    [][WrotePosts(PostWrites \ {"PUT /posts/:id"})
       => PageKey(1) \notin DOMAIN cache']_vars

----------------------------------------------------------------------------
(* Claims about pagination *)

Listing(log) == log.req.route = "GET /posts"

\* The request names a positive page and a positive limit, or leaves them out.
PositiveQuery(req) ==
    /\ req.page \in {ABSENT, "1", "2"}
    /\ req.limit \in {ABSENT, "1", "2", "10"}

AskedPage(req) == IF req.page = ABSENT THEN 1 ELSE IF req.page = "1" THEN 1 ELSE 2
AskedLimit(req) ==
    IF req.limit \in {ABSENT, "10"} THEN 10 ELSE IF req.limit = "1" THEN 1 ELSE 2

\* k is the least number of pages of the given size that hold total rows.
IsCeil(k, total, size) ==
    /\ k \in 0..total
    /\ k * size >= total
    /\ (k = 0 \/ (k - 1) * size < total)

\* The response is the window of the request over a listing of r.total rows.
Paged(req, r) ==
    LET offset == (AskedPage(req) - 1) * AskedLimit(req)
        left == IF r.total > offset THEN r.total - offset ELSE 0
    IN /\ r.pages # None
       /\ IsCeil(r.pages[1], r.total, AskedLimit(req))
       /\ Len(r.posts) = IF left < AskedLimit(req) THEN left ELSE AskedLimit(req)

\* C17: for every GET /posts request with a positive page and limit, the
\* rows returned are those from offset (page - 1) * limit on and the page
\* count reported is ceil(total / limit), 0 when total is 0.
C17_OffsetAndPageCount ==
    [][(now' = now /\ Listing(last') /\ PositiveQuery(last'.req))
       => (last'.status = 200 /\ Paged(last'.req, last'.out[1]))]_vars

\* The same where the listing is computed for the request (no cache), with
\* the rows compared to the store.
C17_UncachedOffsetAndPageCount ==
    [][(now' = now /\ Listing(last') /\ PositiveQuery(last'.req)
        /\ last'.req.ver = "kv_sync")
       => LET r == last'.out[1]
              offset == (AskedPage(last'.req) - 1) * AskedLimit(last'.req)
          IN /\ last'.status = 200
             /\ r.total = Cardinality(Published)
             /\ Paged(last'.req, r)
             /\ \A i \in 1..Len(r.posts) :
                   /\ r.posts[i].id \in Published
                   /\ Cardinality({b \in Published : ListedBefore(b, r.posts[i].id)})
                         = offset + i - 1]_vars

HasDigit(raw) ==
    raw # ABSENT /\ \E i \in 1..Len(raw) : \E d \in 0..9 :
                        SubSeq(raw, i, i) = SubSeq(Digits, d + 1, d + 1)

\* C18: in every GET /posts request the page and the limit used are positive
\* integers, the defaults 1 and 10 when the parameter is absent or holds no
\* number, so that the offset is not negative and the limit is neither zero,
\* negative nor NaN, and the listing is answered.
C18_PositivePageAndLimit ==
    [][(now' = now /\ Listing(last'))
       => LET req == last'.req IN
          /\ PageOf(req) # None /\ PageOf(req)[1] >= 1
          /\ LimitOf(req) # None /\ LimitOf(req)[1] >= 1
          /\ OffsetOf(req) # None /\ OffsetOf(req)[1] >= 0
          /\ ~HasDigit(req.page) => PageOf(req) = Some(1)
          /\ ~HasDigit(req.limit) => LimitOf(req) = Some(10)
          /\ last'.status = 200]_vars

\* The part of it that concerns absent parameters and positive numbers.
C18_AbsentOrPositive ==
    [][(now' = now /\ Listing(last') /\ PositiveQuery(last'.req))
       => LET req == last'.req IN
          /\ PageOf(req) = Some(AskedPage(req))
          /\ LimitOf(req) = Some(AskedLimit(req))
          /\ OffsetOf(req) = Some((AskedPage(req) - 1) * AskedLimit(req))
          /\ last'.status = 200]_vars

----------------------------------------------------------------------------
(* Claims about reading a post by its slug *)

ReadBySlug(log) == log.req.route = "GET /posts/:slug"

\* What the claim requires of one answered GET /posts/:slug.
NotFoundUnlessPublished(log) ==
    /\ PublishedBySlug(log.req.slug) = {} => log.status = 404
    /\ log.status = 200 =>
          /\ log.out[1].post.id \in DOMAIN posts
          /\ posts[log.out[1].post.id].status = "published"
          /\ posts[log.out[1].post.id].slug = log.req.slug

\* C19: GET /posts/:slug for a slug that no published post in the store has
\* is answered 404, whether JSON or HTML is asked for, and a 200 carries a
\* post that the store holds as published under that slug.
C19_UnpublishedSlugIs404 ==
    [][(now' = now /\ ReadBySlug(last')) => NotFoundUnlessPublished(last')]_vars

\* The same for the revision that queries the store on every request.
C19_UncachedUnpublishedSlugIs404 ==
    [][(now' = now /\ ReadBySlug(last') /\ last'.req.ver = "kv_sync")
       => NotFoundUnlessPublished(last')]_vars

----------------------------------------------------------------------------
(* Claims about slugs *)

SlugsOf(tbl) == {tbl[p].slug : p \in DOMAIN tbl}

\* A create that passed the role gate and the body checks, with the database up.
AdmittedCreate(log) ==
    /\ log.req.route = "POST /api/posts"
    /\ log.user # NoUser /\ log.user.role \in {"owner", "admin"}
    /\ log.req.body.title \notin {ABSENT, NULL, ""}
    /\ log.req.body.content \notin {ABSENT, NULL, ""}
    /\ ~log.req.dbFails

\* C20: no two posts share a slug, and a create whose derived slug meets
\* existing slugs succeeds with a slug that no existing post has, also when
\* the existing slugs only share the prefix or a suffixed post was deleted.
C20_CollidingCreateSucceeds ==
    [][/\ \A a, b \in DOMAIN posts' : posts'[a].slug = posts'[b].slug => a = b
       /\ (now' = now /\ AdmittedCreate(last'))
          => /\ last'.status = 201
             /\ \E p \in DOMAIN posts' \ DOMAIN posts :
                   posts'[p].slug \notin SlugsOf(posts)]_vars

\* The part of it that the UNIQUE constraint on posts.slug carries.
C20_SlugsUnique == \A a, b \in DOMAIN posts : posts[a].slug = posts[b].slug => a = b

----------------------------------------------------------------------------
(* Claims about failures *)

\* A request of an admitted writer whose database statement threw.
DatabaseThrew(log) ==
    /\ log.req.dbFails
    /\ log.status \notin {401, 403}

\* C21: a request during which the database throws is answered 500, never
\* 400, with a body that does not carry the text of the exception.
C21_ExceptionIsGeneric500 ==
    [][(now' = now /\ DatabaseThrew(last'))
       => (last'.status = 500 /\ last'.out # ErrorBody(ExceptionText))]_vars

\* The part of it that POST /posts/:id/publish meets.
C21_PublishFailureIs500 ==
    [][(now' = now /\ DatabaseThrew(last')
        /\ last'.req.route = "POST /posts/:id/publish")
       => (last'.status = 500 /\ last'.out # ErrorBody(ExceptionText))]_vars

\* POST /posts alone: is the failure reported as 500?
C21_CreateFailureIs500 ==
    [][(now' = now /\ DatabaseThrew(last') /\ last'.req.route = "POST /posts")
       => last'.status = 500]_vars

\* PUT /api/posts/:slug alone: is the body free of the exception's text?
C21_AstroFailureHidesText ==
    [][(now' = now /\ DatabaseThrew(last')
        /\ last'.req.route = "PUT /api/posts/:slug")
       => last'.out # ErrorBody(ExceptionText)]_vars

----------------------------------------------------------------------------
(* Claims about deleting media *)

\* The keys the clients send, URL-decoded.
PlainKey(raw) ==
    CASE raw = "u1%2F1" -> "u1/1"
      [] raw = "u2%2F1" -> "u2/1"
      [] raw = "u10%2F1" -> "u10/1"
      [] raw = "x%2Fu1%2F1" -> "x/u1/1"
      [] OTHER -> raw

\* The key is the principal's id, a '/', and anything after it.
KeyOfPrincipal(user, plain) ==
    \E n \in 1..Len(plain) : SubSeq(plain, 1, n) = user.id \o "/"

DeletingMedia(log) == log.req.route = "DELETE /media/:key"

\* C22: DELETE /media/:key calls the storage service only for a principal
\* whose id and '/' begin the decoded key, and then for that key; without a
\* principal it answers 401 and for a key of somebody else 403, both without
\* a call.
C22_ForwardsOnlyOwnKeys ==
    [][(now' = now /\ DeletingMedia(last'))
       => LET user == last'.user
              plain == PlainKey(last'.req.key)
          IN /\ user = NoUser => (last'.status = 401 /\ outbound' = outbound)
             /\ (user # NoUser /\ ~KeyOfPrincipal(user, plain))
                   => (last'.status = 403 /\ outbound' = outbound)
             /\ (user # NoUser /\ KeyOfPrincipal(user, plain))
                   => outbound' = Append(outbound,
                                         [op |-> "delete", by |-> user.id, key |-> plain])
       ]_vars

\* User u1 was refused the key u10/1 after a deletion of u1/1 went out.
C22_ForeignKeyRefused ==
    /\ DeletingMedia(last)
    /\ last.user # NoUser /\ last.user.id = "u1"
    /\ last.req.key = "u10%2F1"
    /\ last.status = 403
    /\ outbound = <<[op |-> "delete", by |-> "u1", key |-> "u1/1"]>>

----------------------------------------------------------------------------
(* Claims about the quota and the media rows *)

RECURSIVE FileSizeSum(_)
FileSizeSum(rows) ==
    IF rows = {} THEN 0
    ELSE LET r == CHOOSE x \in rows : TRUE
         IN r.file_size + FileSizeSum(rows \ {r})

MediaOf(tbl, userId) == {r \in tbl : r.uploaded_by = userId}

\* The quota rows count exactly the media rows, user by user.
QuotaMatches(tbl, quota) ==
    \A u \in UserIds :
        IF MediaOf(tbl, u) = {} THEN u \notin DOMAIN quota
        ELSE /\ u \in DOMAIN quota
             /\ quota[u].total_bytes_used = FileSizeSum(MediaOf(tbl, u))
             /\ quota[u].total_files = Cardinality(MediaOf(tbl, u))

\* C23: between uploads, and with no media row deleted, each user's quota row
\* holds the sum of the sizes and the number of that user's media rows, also
\* after an upload whose media insert or quota upsert failed.
C23_QuotaMatchesMedia == QuotaMatches(media, usage_quota)

\* The same kept by every upload in which the quota upsert does not fail.
C23_KeptUnlessUpsertFails ==
    [][(now' = now /\ Uploading(last') /\ last'.req.failAt # "quota_upsert"
        /\ QuotaMatches(media, usage_quota))
       => QuotaMatches(media', usage_quota')]_vars

\* C24: no user's total_bytes_used exceeds FREE_TIER_LIMIT_GB * 1024^3,
\* whatever the interleaving of the uploads.
C24_QuotaWithinLimit ==
    \A u \in DOMAIN usage_quota : usage_quota[u].total_bytes_used <= QuotaLimit

----------------------------------------------------------------------------
(* Claims about the listing cache under concurrency *)

\* A GET /posts for page 1 with the default limit that begins and is answered
\* in this step, from the entry posts:page:1.
AnsweredFromFirstPage ==
    /\ now' = now
    /\ Listing(last')
    /\ last'.req.ver # "kv_sync"
    /\ last'.req.page = ABSENT /\ last'.req.limit = ABSENT
    /\ inflight' = inflight
    /\ PageKey(1) \in DOMAIN cache

\* C25: a GET /posts for page 1 that starts when the publish is complete is
\* answered with a listing that holds every published post, also when
\* another listing ran across the publish.
C25_ListsPublishedAfterPublish ==
    [][AnsweredFromFirstPage
       => \A id \in Published :
             \E i \in 1..Len(last'.out[1].posts) : last'.out[1].posts[i].id = id]_vars

\* A GET /posts with a positive page and limit that the caching revision
\* answers from the entry of its page.
AnsweredFromCache ==
    /\ now' = now
    /\ Listing(last')
    /\ last'.req.ver # "kv_sync"
    /\ PositiveQuery(last'.req)
    /\ inflight' = inflight
    /\ PageKey(AskedPage(last'.req)) \in DOMAIN cache

\* C26: a listing served from the cache is the listing of the request's own
\* page and limit: at most limit posts, and ceil(total / limit) pages; an
\* entry computed under another limit is not returned.
C26_CacheKeepsToLimit ==
    [][AnsweredFromCache
       => LET r == last'.out[1] IN
          /\ Len(r.posts) <= AskedLimit(last'.req)
          /\ r.pages # None
          /\ IsCeil(r.pages[1], r.total, AskedLimit(last'.req))]_vars

----------------------------------------------------------------------------
(* Claims about routing *)

\* C27: a GET for /posts/new is handled by the editor page's handler, never
\* by the handler of /posts/:slug with the slug new, in every revision.
C27_NewIsNotASlug ==
    [][(now' = now /\ last'.req.slug = "new"
        /\ last'.req.route \in {"GET /posts/new", "GET /posts/:slug"})
       => last'.req.route = "GET /posts/new"]_vars

\* The same for the revision that registers /posts/new first.
C27_NewIsNotASlugWhereFirst ==
    [][(now' = now /\ last'.req.slug = "new" /\ last'.req.ver = "kv_sync"
        /\ last'.req.route \in {"GET /posts/new", "GET /posts/:slug"})
       => last'.req.route = "GET /posts/new"]_vars

----------------------------------------------------------------------------
(* Claims about the /api/posts endpoints and the session *)

ApiWrites == {"POST /api/posts", "PUT /api/posts/:slug", "DELETE /api/posts/:slug"}

\* The cookie names a stored, readable session that has not expired at t.
LiveSession(cookie, t) ==
    /\ cookie.name = "session_id"
    /\ cookie.value \in DOMAIN SESSIONS_KV
    /\ SESSIONS_KV[cookie.value].ok
    /\ \/ SESSIONS_KV[cookie.value].expires = None
       \/ SESSIONS_KV[cookie.value].expires[1] > t * 1000

\* The role that the handler of the route asks for.
RoleSuffices(route, role) ==
    IF route = "DELETE /api/posts/:slug" THEN role = "owner"
    ELSE role \in {"owner", "admin"}

\* C28: a request to an /api/posts write endpoint with a live session whose
\* role suffices is not answered 401, and the principal of the handler is
\* the user of that session.
C28_SessionAdmitsApiWrite ==
    [][(/\ now' = now
        /\ last'.req.route \in ApiWrites
        /\ LiveSession(last'.req.cookie, now)
        /\ RoleSuffices(last'.req.route, SESSIONS_KV[last'.req.cookie.value].role))
       => /\ last'.status # 401
          /\ last'.user # NoUser
          /\ last'.user.id = SESSIONS_KV[last'.req.cookie.value].userId]_vars

\* What holds instead: the handler's principal is locals.user as it arrives.
C28_PrincipalIsLocalsUser ==
    [][(now' = now /\ last'.req.route \in ApiWrites)
       => /\ last'.user = last'.req.localsUser
          /\ last'.req.localsUser = NoUser => last'.status = 401]_vars

----------------------------------------------------------------------------
(* Claims about the status of a post *)

\* What one step may do to the status of the posts.
LifecycleStep ==
    /\ \A id \in DOMAIN posts' : posts'[id].status \in {"draft", "published"}
    /\ \A id \in DOMAIN posts \cap DOMAIN posts' :
          posts'[id].status # posts[id].status
             => (posts[id].status = "draft" /\ posts'[id].status = "published")

\* C29: every stored status is draft or published, and the only change of a
\* status that any operation makes is from draft to published.
C29_DraftThenPublished == [][LifecycleStep]_vars

\* The same for the routes of the Hono worker alone.
C29_HonoDraftThenPublished ==
    [][last'.req.route \in {"POST /posts", "PUT /posts/:id", "POST /posts/:id/publish"}
       /\ now' = now
       /\ (\A id \in DOMAIN posts : posts[id].status \in {"draft", "published"})
       => LifecycleStep]_vars

----------------------------------------------------------------------------
(* Claims about replies *)

\* A comment was accepted on a wall in this step.
CommentAccepted ==
    /\ now' = now
    /\ last'.req.route = "POST /walls/:id/comments"
    /\ last'.status = 201

\* C30: a comment submitted with a parent_comment_id is stored with that
\* parent_comment_id, so that the wall's top-level listing leaves it out.
C30_ReplyKeepsParent ==
    [][(CommentAccepted /\ last'.req.comment.parent_comment_id # ABSENT)
       => LET new == last'.out[1].id IN
          /\ comments'[new].parent_comment_id
                = <<last'.req.comment.parent_comment_id>>
          /\ comments'[new].parent_comment_id # None]_vars

\* A comment submitted without a parent is stored as a top-level comment.
C30_TopLevelWithoutParent ==
    [][(CommentAccepted /\ last'.req.comment.parent_comment_id = ABSENT)
       => comments'[last'.out[1].id].parent_comment_id = None]_vars

====
